---- MODULE Spec2Model ----
(***************************************************************************)
(* A model of the Famly downloader (src/famly_downloader.py): the          *)
(* paginated image fetch with its incremental stop rule                    *)
(* (FamlyDownloader.fetch_all_images), the cursor-paginated observation    *)
(* fetch (fetch_all_observations), the parallel download engine            *)
(* (FamlyDownloader.download_all / download_image), the credential cache   *)
(* (load_cached_credentials, save_cached_credentials, update_last_sync)    *)
(* and the run orchestrator (main).                                        *)
(*                                                                         *)
(* Conventions.                                                            *)
(*  - A timestamp (createdAt, stop_at, older_than) is a natural number;    *)
(*    the order of the numbers is the order Python's string comparison     *)
(*    gives the ISO-8601 strings.  0 is the empty string "", which is what *)
(*    image.get("createdAt", "") yields for an item without createdAt.     *)
(*  - None is the Python value None; it is never compared with a         *)
(*    timestamp except through Truthy, as in the code.                     *)
(*  - An imageId is a sequence of one-character strings, so that the       *)
(*    slice image_id[:8] and the substring test "skipped" in result are    *)
(*    computed and not assumed.                                            *)
(***************************************************************************)
EXTENDS Integers, Sequences, FiniteSets, TLC

VARIABLES
    \* ---- download engine (download_all / download_image) ----
    images,         \* the list handed to download_all
    download_big,   \* self.download_big
    max_workers,    \* self.max_workers
    fs,             \* the output directory: path -> Absent or size in chunks
    task,           \* per submitted future: position and result of download_image
    stats,          \* stats = {"success", "failed", "skipped"}
    failed_images,  \* failed_images: list of (image, error)
    pbar,           \* tqdm's completed count
    dpc,            \* position of download_all
    run,            \* number of the download_all call in progress (1 or 2)
    first,          \* what the first call returned (kept for the second call)
    \* ---- observation and message assets (download_observation_images,
    \*      download_message_images) ----
    record,         \* the observation or conversation being processed
    apc,            \* position of the asset loop
    mi,             \* index of the message whose images are being processed
    ai,             \* index of the next image of the current list
    downloaded,     \* downloaded
    message_images, \* message_images, as a list of (messageId, paths)
    alog,           \* history: what happened to every asset examined
    arun,           \* which run of main processes the record (1 or 2)
    \* ---- paginated fetch (fetch_all_images / fetch_image_list) ----
    remote,         \* the remote collection of tagged images, newest first
    batch_size,     \* batch_size argument
    stop_at,        \* stop_at argument
    all_images,     \* all_images
    older_than,     \* older_than
    reached_existing, \* reached_existing
    fpc,            \* position of fetch_all_images
    requests,       \* history: the olderThan cursor of every page request issued
    pages,          \* history: every page the remote served, in order
    synced,         \* history: the fetch result of every run so far
    \* the publish tool (publish.py)
    settings,       \* command line, environment and configuration file
    provider,       \* the provider object main constructs
    cpc,            \* position of CloudflareProvider.deploy
    calls,          \* history: the commands and API requests issued
    deploy_result,  \* the DeployResult returned
    \* ---- the photo gallery page in a browser (output_formats.py) ----
    page,           \* layout, scroll position, classes, pointer and clock
    \* ---- paginated observation fetch (fetch_all_observations) ----
    all_observations, \* all_observations
    cursor,         \* cursor
    opc,            \* position of fetch_all_observations
    posts,          \* history: the after cursor of every GraphQL request issued
    answers,        \* history: every {results, next} answer received, in order
    \* ---- the run orchestrator (main) and the credential cache ----
    cache,          \* the file .famly_credentials.json of the output directory
    feed,           \* per child, the remote collection of tagged images
    obs_images,     \* whether the children's observations carry an image
    fault,          \* the error a failing request of this run meets
    serial,         \* number of images published so far
    spc,            \* position of main
    args,           \* the command line of the run in progress
    access_token,   \* access_token
    todo,           \* children_to_download, from the one being processed on
    selected,       \* len(children_to_download)
    last_sync,      \* last_sync, as loaded at the start of the run
    child_stop_at,  \* stop_at of the child being processed
    child_images,   \* images of the child being processed
    di,             \* index of the next image download_all has to settle
    results,        \* what download_image returned for the images settled
    runs,           \* number of runs started
    phase,          \* history: the course of the current child's processing
    wlog            \* history: the last write to the cache file

poolVars == <<images, download_big, max_workers, task, stats, failed_images,
              pbar, dpc, run, first>>
assetVars == <<record, apc, mi, ai, downloaded, message_images, alog, arun>>
dlVars == <<poolVars, fs, assetVars>>
fetchVars == <<remote, batch_size, stop_at, all_images, older_than,
               reached_existing, fpc, requests, pages, synced>>
obsVars == <<all_observations, cursor, opc, posts, answers>>
syncVars == <<cache, feed, obs_images, fault, serial, spc, args, access_token, todo, selected,
              last_sync, child_stop_at, child_images, di, results, runs,
              phase, wlog>>
toolVars == <<settings, provider, cpc, calls, deploy_result, page>>
extVars == <<obsVars, syncVars, toolVars>>
vars == <<dlVars, fetchVars, extVars>>

\* Python's None where a timestamp string is expected (stop_at, older_than)
None == 0 - 1
\* The size of a file that does not exist
Absent == 0 - 1
\* JSON null
Null == "null"

\* ------------------------------------------------------------------------
\* Bounds of the model
\* ------------------------------------------------------------------------
MaxTasks == 2          \* longest list handed to download_all
MaxAssets == 2         \* longest image list of an observation or a message
MaxWorkers == 2        \* largest max_workers
ChunksPerFile == 2     \* chunks iter_content yields for one file
TicksPerSecond == 2    \* distinct createdAt values within one second
MaxItems == 4          \* largest remote collection of the bounded fetch inputs
MaxTs == 3             \* largest createdAt of the bounded fetch inputs
MaxBatch == 2          \* largest batch_size of the bounded fetch inputs
MaxResults == 2        \* most observations in one GraphQL answer
MaxPosts == 3          \* GraphQL answers the remote serves before it signals the end
MaxRuns == 2           \* runs of the program on one output directory
MaxSerial == 2         \* images ever published to the remote collections

\* ------------------------------------------------------------------------
\* Helpers on sequences
\* ------------------------------------------------------------------------
Min(a, b) == IF a <= b THEN a ELSE b
Max(a, b) == IF a >= b THEN a ELSE b
Range(s) == {s[i] : i \in 1..Len(s)}
Last(s) == s[Len(s)]

\* Python's  sub in s  on strings
Contains(s, sub) ==
    \E i \in 0..(Len(s) - Len(sub)) :
        \A j \in 1..Len(sub) : s[i + j] = sub[j]

RECURSIVE Flatten(_)
Flatten(ss) == IF ss = <<>> THEN <<>> ELSE Head(ss) \o Flatten(Tail(ss))

\* the sequences over S of length at most n
SeqsUpTo(S, n) == UNION {[1..k -> S] : k \in 0..n}

\* ------------------------------------------------------------------------
\* Image metadata records (the dicts of the images/tagged response)
\* ------------------------------------------------------------------------
\* A field of an image dict that is not there.
Missing == "missing"
\* A truthy "big" / "thumbnail" object that has no "url" key.
NoUrlKey == "no-url-key"
\* What _get_image_url does on such an object: image["big"]["url"] raises.
KeyError == "KeyError"

MkImage(id, ts, big, url_big, thumbnail, url) ==
    [imageId |-> id, createdAt |-> ts, big |-> big, url_big |-> url_big,
     thumbnail |-> thumbnail, url |-> url]

Digit(n) == <<"0", "1", "2", "3", "4", "5", "6", "7", "8", "9">>[n + 1]

\* The imageId of the k-th item of a collection: nine characters, so that
\* items 10a..10a+9 share their first eight.
MkId(k) ==
    <<"i", "m", "g", "0", "0", "0",
      Digit(k \div 100), Digit((k \div 10) % 10), Digit(k % 10)>>

\* An item as the API lists it: a big rendition with a URL.
Item(k, ts) == MkImage(MkId(k), ts, "https://img/big", Missing, Missing, Missing)

\* The collection whose k-th item has createdAt tss[k].
RemoteOf(tss) == [k \in 1..Len(tss) |-> Item(k, tss[k])]

\* Python truthiness of a str | None
Truthy(x) == x /= None /\ x /= 0

\* ------------------------------------------------------------------------
\* fetch_image_list: one request to images/tagged
\* ------------------------------------------------------------------------
\* The items of the collection that are older than the cursor, in the
\* collection's order.
SelectOlder(coll, olderThan) ==
    LET Older(img) == img.createdAt < olderThan
    IN  SelectSeq(coll, Older)

\* The response to  GET images/tagged?childId=..&limit=..[&olderThan=..] :
\* olderThan is sent only when older_than is truthy; the remote answers with
\* the first `limit` items, in its own order, that are older than the cursor.
ServerPage(coll, olderThan, limit) ==
    LET cand == IF Truthy(olderThan) THEN SelectOlder(coll, olderThan) ELSE coll
    IN  SubSeq(cand, 1, Min(limit, Len(cand)))

\* ------------------------------------------------------------------------
\* fetch_all_images: the body of one iteration of  while True
\* ------------------------------------------------------------------------
\* Variant of the for loop that never breaks.
PrefixBefore_Whole(batch, hits) == Len(batch)

\* The length of the longest prefix of the batch that holds none of the
\* indexes in hits: where the for loop breaks.
PrefixBefore(batch, hits) ==
    IF hits = {} THEN Len(batch)
    ELSE (CHOOSE i \in hits : \A j \in hits : i <= j) - 1

\* Variant of the loop that compares with < : an image created exactly at
\* stop_at would be kept.
NewBatch_KeepsEqual(batch, stop) ==
    LET hits == {i \in 1..Len(batch) : batch[i].createdAt < stop}
    IN  SubSeq(batch, 1, PrefixBefore(batch, hits))

\* The for loop over the batch: the items before the first one with
\* createdAt <= stop_at.
NewBatch(batch, stop) ==
    LET hits == {i \in 1..Len(batch) : batch[i].createdAt <= stop}
    IN  SubSeq(batch, 1, PrefixBefore(batch, hits))

\* Whether that loop set reached_existing.
HitsExisting(batch, stop) == \E i \in 1..Len(batch) : batch[i].createdAt <= stop

\* Variant that never filters: stop_at is ignored.
Filtered_IgnoresStop(batch, stop) == batch

\* What the iteration keeps of the page it received.
Filtered(batch, stop) == IF Truthy(stop) THEN NewBatch(batch, stop) ELSE batch

\* Variant of the exit test that also stops on a full page.
StopsAfter_FullPage(kept, reached, size) == reached \/ Len(kept) <= size

\* The loop's exit test after the page was accumulated.
StopsAfter(kept, reached, size) == reached \/ Len(kept) < size

\* Variant that pages from the newest image kept instead of the oldest.
NextCursor_Newest(kept) == Head(kept).createdAt

\* The cursor of the next request: the createdAt of the oldest image kept.
NextCursor(kept) == Last(kept).createdAt

\* One iteration of the loop, given the page `got` the request returned.
FetchIteration(got) ==
    /\ requests' = Append(requests, older_than)
    /\ pages' = Append(pages, got)
    /\ IF got = <<>>
       THEN /\ fpc' = "returned"
            /\ UNCHANGED <<all_images, older_than, reached_existing>>
       ELSE LET kept == Filtered(got, stop_at)
                reached == reached_existing \/ (Truthy(stop_at) /\ HitsExisting(got, stop_at))
            IN  /\ all_images' = all_images \o kept
                /\ reached_existing' = reached
                /\ IF StopsAfter(kept, reached, batch_size)
                   THEN /\ fpc' = "returned"
                        /\ UNCHANGED older_than
                   ELSE /\ older_than' = NextCursor(kept)
                        /\ fpc' = IF Truthy(NextCursor(kept)) THEN "loop" ELSE "returned"
    /\ UNCHANGED <<remote, batch_size, stop_at, synced>>

\* The request succeeds and the remote serves the page its collection defines.
FetchPage ==
    /\ fpc = "loop"
    /\ FetchIteration(ServerPage(remote, older_than, batch_size))
    /\ UNCHANGED <<dlVars, extVars>>

\* Variant in which the loop catches the error and returns what it has.
OnRequestError_Swallowed == "returned"

\* Where a fetch loop is after a page request raised: neither
\* fetch_image_list / fetch_observations nor the loops around them have a
\* try, so the exception leaves the function.
OnRequestError == "raised"

\* The request fails (transport error, or raise_for_status on a non-2xx
\* answer): the exception leaves fetch_all_images.
FetchError ==
    /\ fpc = "loop"
    /\ fpc' = OnRequestError
    /\ requests' = Append(requests, older_than)
    /\ UNCHANGED <<remote, batch_size, stop_at, all_images, older_than,
                   reached_existing, pages, synced>>
    /\ UNCHANGED <<dlVars, extVars>>

\* ------------------------------------------------------------------------
\* fetch_all_observations: cursor pagination over the GraphQL endpoint
\* ------------------------------------------------------------------------
\* The k observations of the answer to the n-th request.
ObsResults(n, k) == [i \in 1..k |-> [id |-> <<n, i>>]]

\* An opaque continuation token; 0 is the empty string.
Token(n) == n + 1

\* The {results, next} objects the endpoint may answer the n-th request
\* with: any number of results, next absent (None), empty or a token; the
\* last answer the remote has carries no token.
Answers(n) ==
    {[results |-> ObsResults(n, k), next |-> nx] :
        k \in 0..MaxResults,
        nx \in {None, 0} \cup (IF n < MaxPosts THEN {Token(n)} ELSE {})}

\* Variant that asks for another page whatever next says.
MorePages_Always(next) == TRUE

\* if not cursor: break
MorePages(next) == Truthy(next)

\* One iteration of the loop, given the answer the request returned.
ObsIteration(ans) ==
    /\ posts' = Append(posts, cursor)
    /\ answers' = Append(answers, ans)
    /\ IF ans.results = <<>>
       THEN /\ opc' = "returned"
            /\ UNCHANGED <<all_observations, cursor>>
       ELSE /\ all_observations' = all_observations \o ans.results
            /\ cursor' = ans.next
            /\ opc' = IF MorePages(ans.next) THEN "loop" ELSE "returned"

\* The request succeeds.
ObsFetchPage ==
    /\ opc = "loop"
    /\ \E ans \in Answers(Len(posts) + 1) : ObsIteration(ans)
    /\ UNCHANGED <<dlVars, fetchVars, syncVars, toolVars>>

\* The request fails (transport error, raise_for_status, or an "errors"
\* member in the answer): the exception leaves fetch_all_observations.
ObsFetchError ==
    /\ opc = "loop"
    /\ opc' = OnRequestError
    /\ posts' = Append(posts, cursor)
    /\ UNCHANGED <<all_observations, cursor, answers>>
    /\ UNCHANGED <<dlVars, fetchVars, syncVars, toolVars>>

\* ------------------------------------------------------------------------
\* Inputs of the fetch
\* ------------------------------------------------------------------------
\* Newest first (ties allowed)
IsDescending(tss) == \A i \in 1..(Len(tss) - 1) : tss[i] >= tss[i + 1]

\* The bounded collections, in the order the remote lists them: newest first
\* or not, with ties and with items without createdAt.
Collections == {RemoteOf(tss) : tss \in SeqsUpTo(0..MaxTs, MaxItems)}

CreatedAts(imgs) == [i \in 1..Len(imgs) |-> imgs[i].createdAt]

StopAts == {None} \cup (0..MaxTs)

\* The synthetic source of section 8: pages of sizes 100, 100 and 40.
ScenarioPageSizes == <<100, 100, 40>>
ScenarioTotal == ScenarioPageSizes[1] + ScenarioPageSizes[2] + ScenarioPageSizes[3]
ScenarioRemote == RemoteOf([k \in 1..ScenarioTotal |-> ScenarioTotal + 1 - k])
ScenarioStopAt == ScenarioRemote[150].createdAt
\* batch_size: int = 100
DefaultBatchSize == 100

FetchIdle ==
    /\ remote = <<>>
    /\ batch_size = 1
    /\ stop_at = None
    /\ all_images = <<>>
    /\ older_than = None
    /\ reached_existing = FALSE
    /\ fpc = "idle"
    /\ requests = <<>>
    /\ pages = <<>>
    /\ synced = <<>>

\* fetch_all_observations is not running.
ObsIdle ==
    /\ all_observations = <<>>
    /\ cursor = None
    /\ opc = "idle"
    /\ posts = <<>>
    /\ answers = <<>>

\* ------------------------------------------------------------------------
\* The credential cache file and the orchestrator's idle state
\* ------------------------------------------------------------------------
Children == {"c1", "c2"}

\* A last_sync dict: child id -> timestamp, None for a child without entry.
NoSync == [c \in Children |-> None]

\* The file: not there, not JSON, or a JSON object with some of the keys
\* access_token, children, saved_at, last_sync.
CacheAbsent == [file |-> "absent"]
CacheCorrupt == [file |-> "corrupt"]
\* The file holds valid JSON that is not an object (a list).
CacheList == [file |-> "list"]
MkCache(token, children, saved_at, ls) ==
    [file |-> "object", access_token |-> token, children |-> children,
     saved_at |-> saved_at, last_sync |-> ls]
Has(data, key) == key \in DOMAIN data
Without(data, key) == [k \in (DOMAIN data) \ {key} |-> data[k]]

NoArgs == [creds |-> "none", child_id |-> "", login |-> FALSE, full |-> FALSE,
           dry_run |-> FALSE, observations |-> FALSE]
NoPhase == [child |-> "", before |-> None, cache0 |-> CacheAbsent, files0 |-> 0,
            fetched |-> FALSE, downloaded |-> FALSE, updated |-> FALSE,
            assets |-> 0, fatal |-> FALSE, error |-> ""]
NoWrite == [op |-> "none", before |-> CacheAbsent, child |-> "", t |-> None,
            token |-> "", children |-> <<>>, given |-> FALSE]

\* main is not running and never ran.
SyncIdle ==
    /\ cache = CacheAbsent
    /\ feed = [c \in Children |-> <<>>]
    /\ obs_images = FALSE
    /\ fault = "RequestException"
    /\ serial = 0
    /\ spc = "idle"
    /\ args = NoArgs
    /\ access_token = ""
    /\ todo = <<>>
    /\ selected = 0
    /\ last_sync = NoSync
    /\ child_stop_at = None
    /\ child_images = <<>>
    /\ di = 0
    /\ results = <<>>
    /\ runs = 0
    /\ phase = NoPhase
    /\ wlog = NoWrite

\* What an unset setting holds (None or ""), and a provider not constructed.
Unset == ""
NoEmails == <<>>
NoProvider ==
    [name |-> "none", bucket |-> Unset, region |-> Unset, account_id |-> Unset,
     api_token |-> Unset, access_emails |-> NoEmails]
NoSettings == [provider |-> "none"]
NoDeployResult == [success |-> FALSE, message |-> "none"]

\* No gallery page is open.
NoPage == [pc |-> "none"]

\* The publish tool is not running and no gallery page is open.
ToolIdle ==
    /\ settings = NoSettings
    /\ provider = NoProvider
    /\ cpc = "idle"
    /\ calls = <<>>
    /\ deploy_result = NoDeployResult
    /\ page = NoPage

ExtIdle == ObsIdle /\ SyncIdle /\ ToolIdle

FetchStart ==
    /\ all_images = <<>>
    /\ older_than = None
    /\ reached_existing = FALSE
    /\ fpc = "loop"
    /\ requests = <<>>
    /\ pages = <<>>
    /\ synced = <<>>

AssetsIdle ==
    /\ record = <<>>
    /\ apc = "idle"
    /\ mi = 0
    /\ ai = 0
    /\ downloaded = <<>>
    /\ message_images = <<>>
    /\ alog = <<>>
    /\ arun = 0


\* ========================================================================
\* The download engine
\* ========================================================================
\* ------------------------------------------------------------------------
\* _get_image_url
\* ------------------------------------------------------------------------
\* image["big"] / image["thumbnail"] is there and truthy
HasObject(v) == v /= Missing /\ v /= Null

GetImageUrl(image, big) ==
    IF big /\ HasObject(image.big)
    THEN (IF image.big = NoUrlKey THEN KeyError ELSE image.big)
    ELSE IF big /\ image.url_big /= Missing
    THEN image.url_big
    ELSE IF HasObject(image.thumbnail)
    THEN (IF image.thumbnail = NoUrlKey THEN KeyError ELSE image.thumbnail)
    ELSE IF image.url = Missing THEN "" ELSE image.url

\* not url
NoUrl(url) == url = "" \/ url = Null

\* ------------------------------------------------------------------------
\* _generate_filename
\* ------------------------------------------------------------------------
\* image_id[:8] if len(image_id) >= 8 else image_id
IdPrefixLen == 8
ShortId(id) == IF Len(id) >= IdPrefixLen THEN SubSeq(id, 1, IdPrefixLen) ELSE id

\* date_str: strftime("%Y-%m-%d_%H%M%S") keeps the second and drops the rest;
\* "unknown_date" when createdAt is empty.
UnknownDate == 0 - 1
DateStr(ts) == IF ts = 0 THEN UnknownDate ELSE ts \div TicksPerSecond

\* f"{date_str}_{short_id}.jpg", kept as its two variable parts
GenerateFilename(image) ==
    [date |-> DateStr(image.createdAt), id |-> ShortId(image.imageId)]

Skipped == <<"s", "k", "i", "p", "p", "e", "d">>
\* "skipped" in filename: only the id part can hold the word
NameHasSkipped(name) == Contains(name.id, Skipped)

\* ------------------------------------------------------------------------
\* download_image: its return values
\* ------------------------------------------------------------------------
NoName == [date |-> UnknownDate, id |-> <<>>]
NoResult == [kind |-> "none", ok |-> FALSE, name |-> NoName, suffix |-> FALSE, err |-> ""]
\* Variant that returns the bare filename for a file that was there.
SkippedResult_NoNote(name) ==
    [kind |-> "value", ok |-> TRUE, name |-> name, suffix |-> FALSE, err |-> ""]

\* return True, f"{filename} (skipped, exists)"
SkippedResult(name) ==
    [kind |-> "value", ok |-> TRUE, name |-> name, suffix |-> TRUE, err |-> ""]
\* return True, filename
WrittenResult(name) ==
    [kind |-> "value", ok |-> TRUE, name |-> name, suffix |-> FALSE, err |-> ""]
\* return False, "No URL available"   and   return False, str(e)
FailedResult(err) ==
    [kind |-> "value", ok |-> FALSE, name |-> NoName, suffix |-> FALSE, err |-> err]
\* an exception that leaves download_image
RaisedResult(err) ==
    [kind |-> "raised", ok |-> FALSE, name |-> NoName, suffix |-> FALSE, err |-> err]

\* Variant in which the except clause is missing: the error leaves
\* download_image.
Caught_Escapes(err) == RaisedResult(err)

\* except Exception as e: return False, str(e)
Caught(err) == FailedResult(err)

\* Variant of the existence test that never finds the file.
Exists_Never(fsys, path) == FALSE

\* filepath.exists()
Exists(fsys, path) == fsys[path] /= Absent

\* "skipped" in result
SaysSkipped(res) == res.suffix \/ NameHasSkipped(res.name)

\* Variant of the tally that does not count a skipped file.
Tally_DropsSkipped(st, res) ==
    IF res.ok
    THEN (IF SaysSkipped(res) THEN st ELSE [st EXCEPT !.success = @ + 1])
    ELSE [st EXCEPT !.failed = @ + 1]

\* Variant of the tally whose result depends on what was counted before: a
\* written file that completes after a failure is counted as skipped.
Tally_AfterFailure(st, res) ==
    IF res.ok
    THEN (IF SaysSkipped(res) \/ st.failed > 0
          THEN [st EXCEPT !.skipped = @ + 1]
          ELSE [st EXCEPT !.success = @ + 1])
    ELSE [st EXCEPT !.failed = @ + 1]

\* download_all: the stats update for one completed future
Tally(st, res) ==
    IF res.ok
    THEN (IF SaysSkipped(res)
          THEN [st EXCEPT !.skipped = @ + 1]
          ELSE [st EXCEPT !.success = @ + 1])
    ELSE [st EXCEPT !.failed = @ + 1]

ZeroStats == [success |-> 0, failed |-> 0, skipped |-> 0]

\* ------------------------------------------------------------------------
\* The worker pool
\* ------------------------------------------------------------------------
Tasks == 1..Len(images)
Path(i) == GenerateFilename(images[i])
\* Variant of a pool that counts no thread as busy.
Running_None == {}

\* The work items a thread of the pool is running download_image for.
Running == {i \in Tasks : task[i].pc \in {"fetch", "write"}}
\* saw and starts are history: whether the target existed when the worker
\* examined it, and how often a worker took the item off the queue.
NewTask ==
    [pc |-> "queued", off |-> 0, res |-> NoResult, net |-> 0, saw |-> FALSE,
     collected |-> FALSE, starts |-> 0]

Finish(i, res) ==
    task' = [task EXCEPT ![i].pc = "done", ![i].res = res, ![i].starts = @ + 1]

\* A worker takes the next work item off the queue and runs download_image
\* up to and including filepath.exists().  The pool runs every submitted
\* item, also once download_all is being left by an exception: the
\* executor's exit waits for them.
TaskStart(i) ==
    /\ dpc \in {"collecting", "raised"}
    /\ task[i].pc = "queued"
    /\ \A j \in 1..(i - 1) : task[j].pc /= "queued"
    /\ Cardinality(Running) < max_workers
    /\ LET url == GetImageUrl(images[i], download_big)
       IN  IF url = KeyError THEN Finish(i, RaisedResult(KeyError))
           ELSE IF NoUrl(url) THEN Finish(i, FailedResult("No URL available"))
           ELSE IF Exists(fs, Path(i))
           THEN task' = [task EXCEPT ![i].pc = "done",
                                     ![i].res = SkippedResult(Path(i)),
                                     ![i].saw = fs[Path(i)] /= Absent,
                                     ![i].starts = @ + 1]
           ELSE task' = [task EXCEPT ![i].pc = "fetch",
                                     ![i].saw = fs[Path(i)] /= Absent,
                                     ![i].starts = @ + 1]
    /\ UNCHANGED <<images, download_big, max_workers, fs, stats, failed_images,
                   pbar, dpc, run, first>>
    /\ UNCHANGED <<assetVars, fetchVars, extVars>>

\* session.get, raise_for_status and open(filepath, "wb").
TaskGet(i) ==
    /\ task[i].pc = "fetch"
    /\ \/ \E err \in {"ConnectionError", "HTTPError 500", "OSError"} :
            /\ task' = [task EXCEPT ![i].pc = "done", ![i].res = Caught(err),
                                    ![i].net = @ + 1]
            /\ fs' = fs
       \/ /\ task' = [task EXCEPT ![i].pc = "write", ![i].off = 0, ![i].net = @ + 1]
          /\ fs' = [fs EXCEPT ![Path(i)] = 0]
    /\ UNCHANGED <<images, download_big, max_workers, stats, failed_images,
                   pbar, dpc, run, first>>
    /\ UNCHANGED <<assetVars, fetchVars, extVars>>

\* One round of  for chunk in response.iter_content(): f.write(chunk) ; the
\* last round falls through to  return True, filename.
TaskWrite(i) ==
    /\ task[i].pc = "write"
    /\ \/ /\ fs' = [fs EXCEPT ![Path(i)] = Max(@, task[i].off + 1)]
          /\ IF task[i].off + 1 = ChunksPerFile
             THEN task' = [task EXCEPT ![i].pc = "done", ![i].off = 0,
                                       ![i].res = WrittenResult(Path(i))]
             ELSE task' = [task EXCEPT ![i].off = @ + 1]
       \/ /\ task' = [task EXCEPT ![i].pc = "done", ![i].off = 0,
                                    ![i].res = Caught("ChunkedEncodingError")]
          /\ fs' = fs
    /\ UNCHANGED <<images, download_big, max_workers, stats, failed_images,
                   pbar, dpc, run, first>>
    /\ UNCHANGED <<assetVars, fetchVars, extVars>>

\* Variant of the progress bar that stands still.
PbarUpdate_Stuck(n) == n

\* pbar.update(1)
PbarUpdate(n) == n + 1

\* One round of  for future in as_completed(futures).
Collect(i) ==
    /\ dpc = "collecting"
    /\ task[i].pc = "done"
    /\ ~task[i].collected
    /\ task' = [task EXCEPT ![i].collected = TRUE]
    /\ IF task[i].res.kind = "raised"
       THEN /\ dpc' = "raised"
            /\ UNCHANGED <<stats, failed_images, pbar>>
       ELSE /\ stats' = Tally(stats, task[i].res)
            /\ failed_images' =
                 IF task[i].res.ok THEN failed_images
                 ELSE Append(failed_images, [img |-> i, error |-> task[i].res.err])
            /\ pbar' = PbarUpdate(pbar)
            /\ dpc' = dpc
    /\ UNCHANGED <<images, download_big, max_workers, fs, run, first>>
    /\ UNCHANGED <<assetVars, fetchVars, extVars>>

\* as_completed is exhausted: the report is printed and stats returned.
Return ==
    /\ dpc = "collecting"
    /\ \A i \in Tasks : task[i].collected
    /\ dpc' = "returned"
    /\ UNCHANGED <<images, download_big, max_workers, fs, task, stats,
                   failed_images, pbar, run, first>>
    /\ UNCHANGED <<assetVars, fetchVars, extVars>>

\* download_all is called again on the same list, the output directory as
\* the first call left it.
SecondCall ==
    /\ dpc = "returned"
    /\ run = 1
    /\ run' = 2
    /\ first' = <<stats>>
    /\ dpc' = "collecting"
    /\ task' = [i \in Tasks |-> NewTask]
    /\ stats' = ZeroStats
    /\ failed_images' = <<>>
    /\ pbar' = 0
    /\ UNCHANGED <<images, download_big, max_workers, fs>>
    /\ UNCHANGED <<assetVars, fetchVars, extVars>>

\* ------------------------------------------------------------------------
\* Inputs of the download engine
\* ------------------------------------------------------------------------
IdA1 == <<"a", "1", "b", "2", "c", "3", "d", "4", "e">>
IdA2 == <<"a", "1", "b", "2", "c", "3", "d", "4", "f">>
IdS == <<"9", "s", "k", "i", "p", "p", "e", "d", "0">>
IdShort == <<"a", "b">>

\* The image shapes handed to download_all: a complete record; a record with
\* url_big that shares its second and its id prefix with the first, hence
\* its filename; a thumbnail only, under an id that holds the word
\* "skipped"; a big object without a "url" key and nothing else, for which
\* _get_image_url raises when download_big is set and yields "" when not.
DLImages ==
    { MkImage(IdA1, TicksPerSecond, "https://img/a1", Missing,
              "https://img/a1-thumb", "https://img/a1-small"),
      MkImage(IdA2, TicksPerSecond + 1, Null, "https://img/a2", Missing,
              "https://img/a2-small"),
      MkImage(IdS, 2 * TicksPerSecond, Missing, Missing, "https://img/s", Missing),
      MkImage(IdShort, 0, NoUrlKey, Missing, Missing, Missing) }

PathsOf(imgs) == {GenerateFilename(imgs[i]) : i \in 1..Len(imgs)}

InitPool ==
    /\ images \in SeqsUpTo(DLImages, MaxTasks)
    /\ download_big \in BOOLEAN
    /\ max_workers \in 1..MaxWorkers
    /\ fs \in [PathsOf(images) -> {Absent, ChunksPerFile}]
    /\ task = [i \in 1..Len(images) |-> NewTask]
    /\ stats = ZeroStats
    /\ failed_images = <<>>
    /\ pbar = 0
    /\ dpc = "collecting"
    /\ run = 1
    /\ first = <<>>
    /\ AssetsIdle
    /\ FetchIdle
    /\ ExtIdle

NextPool ==
    \/ \E i \in Tasks : TaskStart(i)
    \/ \E i \in Tasks : TaskGet(i)
    \/ \E i \in Tasks : TaskWrite(i)
    \/ \E i \in Tasks : Collect(i)
    \/ Return
    \/ SecondCall

\* ------------------------------------------------------------------------
\* Observation and message assets
\* ------------------------------------------------------------------------
Jpg == <<".", "j", "p", "g">>

\* s.rfind(c), counted from 1; 0 when c does not occur
LastIndexOf(s, c) ==
    LET at == {i \in 1..Len(s) : s[i] = c}
    IN  IF at = {} THEN 0 ELSE CHOOSE i \in at : \A j \in at : j <= i

\* Path(path).name
BaseName(path) == SubSeq(path, LastIndexOf(path, "/") + 1, Len(path))

\* Path(path).suffix: from the last dot of the name, unless that dot is the
\* first or the last character of the name
Suffix(path) ==
    LET name == BaseName(path)
        dot == LastIndexOf(name, ".")
    IN  IF 1 < dot /\ dot < Len(name) THEN SubSeq(name, dot, Len(name)) ELSE <<>>

\* download_observation_images: ext, for the value of secret.path ("" when
\* it is not there)
ObsImageExt(path) ==
    LET ext == IF path /= <<>> THEN Suffix(path) ELSE Jpg
    IN  IF ext = <<>> THEN Jpg ELSE ext

\* img_dir / f"{img_id[:8]}{ext}"
ObsImagePath(img) ==
    [dir |-> "img", name |-> ShortId(img.id) \o ObsImageExt(img.secretPath)]

\* ------------------------------------------------------------------------
\* _slugify and _get_observation_dir_name
\* ------------------------------------------------------------------------
\* str.lower(), on the letters the bodies are written in
Lower(c) == IF c = "A" THEN "a" ELSE IF c = "B" THEN "b" ELSE c
\* \w and \s of the regular expressions, and the character that ends a line
WordChar(c) == c \in {"a", "b", "0", "_"}
Blank(c) == c \in {" ", "NL"}
NewLine == "NL"

\* re.sub(r"[^\w\s-]", "", slug)
KeepSlugChars(s) == SelectSeq(s, LAMBDA c : WordChar(c) \/ Blank(c) \/ c = "-")

\* re.sub(r"[\s_]+", "-", slug): every run of blanks and underscores
\* becomes one hyphen
Squeeze(s) ==
    LET gap(i) == Blank(s[i]) \/ s[i] = "_"
        heads == SelectSeq([i \in 1..Len(s) |-> i],
                           LAMBDA i : ~gap(i) \/ i = 1 \/ ~gap(i - 1))
    IN  [k \in 1..Len(heads) |-> IF gap(heads[k]) THEN "-" ELSE s[heads[k]]]

\* str.rstrip("-") and str.strip("-")
RStrip(s) ==
    LET keep == {i \in 1..Len(s) : s[i] /= "-"}
    IN  IF keep = {} THEN <<>>
        ELSE SubSeq(s, 1, CHOOSE i \in keep : \A j \in keep : j <= i)
Strip(s) ==
    LET keep == {i \in 1..Len(s) : s[i] /= "-"}
    IN  IF keep = {} THEN <<>>
        ELSE RStrip(SubSeq(s, CHOOSE i \in keep : \A j \in keep : i <= j, Len(s)))

\* max_length: int = 30
SlugMaxLength == 30

\* _slugify(text)
Slugify(text) ==
    LET lowered == [i \in 1..Len(text) |-> Lower(text[i])]
        slug == Strip(Squeeze(KeepSlugChars(lowered)))
    IN  RStrip(SubSeq(slug, 1, Min(SlugMaxLength, Len(slug))))

\* body.split("\n")[0]
FirstLine(body) ==
    LET ends == {i \in 1..Len(body) : body[i] = NewLine}
    IN  IF ends = {} THEN body
        ELSE SubSeq(body, 1, (CHOOSE i \in ends : \A j \in ends : i <= j) - 1)

ObservationWord == <<"o", "b", "s", "e", "r", "v", "a", "t", "i", "o", "n">>

\* _get_observation_dir_name: f"{date}_{slug}_{obs_id}", kept as its three
\* parts
GetObservationDirName(observation) ==
    LET date == IF observation.date = Missing THEN "unknown" ELSE observation.date
        first_line == IF observation.body /= <<>>
                      THEN FirstLine(observation.body) ELSE ObservationWord
        slug == Slugify(first_line)
    IN  [date |-> date,
         slug |-> IF slug = <<>> THEN ObservationWord ELSE slug,
         id |-> ShortId(observation.id)]

\* obs_path / "img" / filename, with obs_path = obs_dir / obs_name (main)
ObsFilePath(observation, img) ==
    [dir |-> GetObservationDirName(observation), name |-> ObsImagePath(img)]

\* images_dir / f"{img_id[:8]}.jpg"
MsgImagePath(img) == [dir |-> "images", name |-> ShortId(img.imageId) \o Jpg]

\* f"{prefix}/{key}"
MsgImageUrl(img) == <<img.prefix, "/", img.key>>

NoPath == [dir |-> "", name |-> <<>>]

\* The part of one loop iteration that all asset downloaders share, from
\* filepath.exists() on: the file is there and is listed without a request;
\* or it is requested, and the transfer ends with no file (request or open
\* failed), with a file cut short (error after open), or with the whole
\* file, which alone is listed.
AssetIteration(url, path) ==
    IF Exists(fs, path)
    THEN /\ downloaded' = Append(downloaded, path)
         /\ alog' = Append(alog, [path |-> path, existed |-> fs[path] /= Absent,
                                  requested |-> FALSE, listed |-> TRUE,
                                  wrote |-> FALSE])
         /\ fs' = fs
    ELSE \E size \in {Absent} \cup (0..ChunksPerFile) :
            /\ fs' = [fs EXCEPT ![path] = size]
            /\ downloaded' = IF size = ChunksPerFile THEN Append(downloaded, path)
                             ELSE downloaded
            /\ alog' = Append(alog, [path |-> path, existed |-> fs[path] /= Absent,
                                     requested |-> TRUE,
                                     listed |-> size = ChunksPerFile,
                                     wrote |-> size /= Absent])

\* An iteration that ends at  continue  before any path is computed.
AssetSkipped ==
    /\ alog' = Append(alog, [path |-> NoPath, existed |-> FALSE,
                             requested |-> FALSE, listed |-> FALSE,
                             wrote |-> FALSE])
    /\ UNCHANGED <<fs, downloaded>>

\* download_observation_images: one round of  for img in images
ObsImageStep ==
    /\ apc = "observation"
    /\ ai <= Len(record.images)
    /\ LET img == record.images[ai]
       IN  IF img.url = "" THEN AssetSkipped
           ELSE AssetIteration(img.url, ObsFilePath(record, img))
    /\ ai' = ai + 1
    /\ UNCHANGED <<record, apc, mi, message_images, arun>>
    /\ UNCHANGED <<poolVars, fetchVars, extVars>>

\* download_observation_images: return downloaded
ObsImagesReturn ==
    /\ apc = "observation"
    /\ ai > Len(record.images)
    /\ apc' = "returned"
    /\ UNCHANGED <<record, mi, ai, downloaded, message_images, alog, arun, fs>>
    /\ UNCHANGED <<poolVars, fetchVars, extVars>>

\* A later run of main comes to the same observation record: the output
\* directory is as the first run left it, and download_observation_images
\* is called with obs_dir / _get_observation_dir_name(obs) again.
ObsSecondRun ==
    /\ apc = "returned"
    /\ record.kind = "observation"
    /\ arun = 1
    /\ arun' = 2
    /\ apc' = "observation"
    /\ ai' = 1
    /\ downloaded' = <<>>
    /\ UNCHANGED <<record, mi, message_images, alog, fs>>
    /\ UNCHANGED <<poolVars, fetchVars, extVars>>

\* download_message_images: one round of the inner  for img in images
MsgImageStep ==
    /\ apc = "conversation"
    /\ mi <= Len(record.messages)
    /\ ai <= Len(record.messages[mi].images)
    /\ LET img == record.messages[mi].images[ai]
       IN  IF img.prefix = "" \/ img.key = "" THEN AssetSkipped
           ELSE AssetIteration(MsgImageUrl(img), MsgImagePath(img))
    /\ ai' = ai + 1
    /\ UNCHANGED <<record, apc, mi, message_images, arun>>
    /\ UNCHANGED <<poolVars, fetchVars, extVars>>

\* download_message_images: the end of one round of  for msg in messages
MsgDone ==
    /\ apc = "conversation"
    /\ mi <= Len(record.messages)
    /\ ai > Len(record.messages[mi].images)
    /\ message_images' =
         IF downloaded /= <<>>
         THEN Append(message_images, <<record.messages[mi].messageId, downloaded>>)
         ELSE message_images
    /\ downloaded' = <<>>
    /\ mi' = mi + 1
    /\ ai' = 1
    /\ UNCHANGED <<record, apc, alog, arun, fs>>
    /\ UNCHANGED <<poolVars, fetchVars, extVars>>

\* download_message_images: return message_images
MsgImagesReturn ==
    /\ apc = "conversation"
    /\ mi > Len(record.messages)
    /\ apc' = "returned"
    /\ UNCHANGED <<record, mi, ai, downloaded, message_images, alog, arun, fs>>
    /\ UNCHANGED <<poolVars, fetchVars, extVars>>

\* The image entries of observations: an extension in secret.path; the same
\* id prefix with no secret.path; no url.
ObsImages ==
    { [id |-> IdA1, url |-> "https://obs/a1",
       secretPath |-> <<"o", "/", "a", ".", "p", "n", "g">>],
      [id |-> IdA2, url |-> "https://obs/a2", secretPath |-> <<>>],
      [id |-> IdA1, url |-> "https://obs/a3", secretPath |-> <<"o", ".", "x", "/", "a">>],
      [id |-> IdShort, url |-> "", secretPath |-> <<>>] }

\* The image entries of messages: two whose ids share their prefix; one
\* without prefix.
MsgImages ==
    { [imageId |-> IdA1, prefix |-> "https://msg", key |-> "k1"],
      [imageId |-> IdA2, prefix |-> "https://msg", key |-> "k2"],
      [imageId |-> IdS, prefix |-> "", key |-> "k3"] }

\* remark.date, remark.body and id of observations: a date and a body of
\* two words; no date and no body; a first line that has no word character.
ObsRemarks ==
    { [date |-> "2024-05-01", body |-> <<"A", " ", "b">>, id |-> IdA1],
      [date |-> Missing, body |-> <<>>, id |-> IdA2],
      [date |-> "2024-05-01", body |-> <<"_", "!", "NL", "a">>, id |-> IdS] }

Observations ==
    {[kind |-> "observation", date |-> r.date, body |-> r.body, id |-> r.id,
      images |-> imgs] : r \in ObsRemarks, imgs \in SeqsUpTo(ObsImages, MaxAssets)}

Messages(id) ==
    {[messageId |-> id, images |-> imgs] : imgs \in SeqsUpTo(MsgImages, MaxAssets)}

Conversations ==
    {[kind |-> "conversation", messages |-> <<m>>] : m \in Messages("m1")}
    \cup {[kind |-> "conversation", messages |-> <<m, n>>] :
            m \in Messages("m1"), n \in Messages("m2")}

AssetPaths(rec) ==
    IF rec.kind = "observation"
    THEN {ObsFilePath(rec, rec.images[i]) : i \in 1..Len(rec.images)}
    ELSE UNION {{MsgImagePath(rec.messages[m].images[i]) :
                    i \in 1..Len(rec.messages[m].images)} :
                m \in 1..Len(rec.messages)}

PoolIdle ==
    /\ images = <<>>
    /\ download_big = TRUE
    /\ max_workers = 1
    /\ task = <<>>
    /\ stats = ZeroStats
    /\ failed_images = <<>>
    /\ pbar = 0
    /\ dpc = "idle"
    /\ run = 0
    /\ first = <<>>

InitAssets ==
    /\ record \in Observations \cup Conversations
    /\ apc = record.kind
    /\ mi = 1
    /\ ai = 1
    /\ downloaded = <<>>
    /\ message_images = <<>>
    /\ alog = <<>>
    /\ arun = 1
    /\ fs \in [AssetPaths(record) -> {Absent, ChunksPerFile}]
    /\ PoolIdle
    /\ FetchIdle
    /\ ExtIdle

NextAssets ==
    \/ ObsImageStep
    \/ ObsImagesReturn
    \/ ObsSecondRun
    \/ MsgImageStep
    \/ MsgDone
    \/ MsgImagesReturn

DownloadIdle ==
    /\ PoolIdle
    /\ AssetsIdle
    /\ fs = <<>>

InitDownload == InitPool \/ InitAssets

NextDownload == NextPool \/ NextAssets

SpecDownload == InitDownload /\ [][NextDownload]_vars

\* ========================================================================
\* Properties of the download engine
\* ========================================================================
Returned == dpc = "returned"
FailedTasks == {i \in Tasks : task[i].res.kind = "value" /\ ~task[i].res.ok}
FailureEntries(i) == {k \in 1..Len(failed_images) : failed_images[k].img = i}
SamePath(i) == {j \in Tasks : Path(j) = Path(i)}
WholeOrAbsent(size) == size = Absent \/ size = ChunksPerFile

\* C1: when download_all returns, success + skipped + failed equals the
\* number of images it was given, whatever the mix of present, downloadable,
\* failing and malformed items and whatever the worker count.
C1_CountsAddUp ==
    Returned => stats.success + stats.skipped + stats.failed = Len(images)

\* A second call that returned with files skipped and downloads failed, after
\* a first call that wrote files, with more than one worker.
C1_Witness ==
    /\ Returned
    /\ run = 2
    /\ max_workers > 1
    /\ first[1].success > 0
    /\ stats.skipped > 0
    /\ stats.failed > 0

\* C2: a task's failure (network error, non-2xx answer, file I/O error) is
\* caught inside download_image: it never leaves download_image as an
\* exception, so it never makes download_all raise; when download_all
\* returns, every task has run to completion and has been counted, and each
\* failed task is in failed_images exactly once, with its error, and in the
\* failed count.
C2_FailuresIsolated ==
    /\ \A i \in Tasks :
          task[i].res.kind = "raised" =>
              /\ task[i].res.err = KeyError
              /\ GetImageUrl(images[i], download_big) = KeyError
              /\ task[i].net = 0
    /\ dpc = "raised" => \E i \in Tasks : task[i].res.kind = "raised"
    /\ Returned =>
          /\ \A i \in Tasks : task[i].pc = "done" /\ task[i].collected
          /\ \A i \in FailedTasks :
                /\ Cardinality(FailureEntries(i)) = 1
                /\ \A k \in FailureEntries(i) : failed_images[k].error = task[i].res.err
          /\ \A i \in Tasks \ FailedTasks : FailureEntries(i) = {}
          /\ stats.failed = Cardinality(FailedTasks)

\* download_all returned after one task failed on an HTTP error while
\* another one wrote its file.
C2_Witness ==
    /\ Returned
    /\ \E i, j \in Tasks :
          /\ task[i].res.err = "HTTPError 500"
          /\ task[j].res = WrittenResult(Path(j))
          /\ task[j].net = 1

\* C3: a transfer that fails after the response was accepted leaves no
\* zero-byte or partly written file under the final filename, for standalone
\* images and for observation and message assets.
C3_NoPartialFile ==
    /\ \A i \in Tasks :
          (task[i].pc = "done" /\ task[i].res.err = "ChunkedEncodingError"
           /\ SamePath(i) = {i})
              => WholeOrAbsent(fs[Path(i)])
    /\ \A k \in 1..Len(alog) :
          (alog[k].requested /\ ~alog[k].listed) => WholeOrAbsent(fs[alog[k].path])

\* C4: a task whose target exists when the worker examines it ends as
\* success with the skipped note and without any request, and is counted as
\* skipped; an observation or message asset whose file exists is listed as
\* downloaded without any request.
C4_ExistingNeverRequested ==
    /\ \A i \in Tasks :
          task[i].saw =>
              /\ task[i].pc = "done"
              /\ task[i].res.kind = "value"
              /\ task[i].res.ok
              /\ SaysSkipped(task[i].res)
              /\ task[i].net = 0
    /\ Returned => stats.skipped >= Cardinality({i \in Tasks : task[i].saw})
    /\ \A k \in 1..Len(alog) :
          alog[k].existed => (~alog[k].requested /\ alog[k].listed)

\* In one batch a task found its file and was counted as skipped while
\* another task issued a request.
C4_Witness ==
    /\ Returned
    /\ run = 1
    /\ stats.skipped = 1
    /\ \E i, j \in Tasks : task[i].saw /\ task[j].net = 1

\* An asset loop returned having met both a file that was there and one that
\* had to be requested.
C4_WitnessAssets ==
    /\ apc = "returned"
    /\ \E k, l \in 1..Len(alog) : alog[k].existed /\ alog[l].requested

\* C5: a download that fails leaves no file at the target path and is
\* counted in failed and listed with a non-empty error message.
C5_FailedLeavesNoFile ==
    Returned =>
        \A i \in FailedTasks :
            (task[i].net > 0 /\ SamePath(i) = {i}) =>
                /\ fs[Path(i)] = Absent
                /\ stats.failed >= 1
                /\ \E k \in FailureEntries(i) : failed_images[k].error /= ""

\* C6 as stated: the second of two calls on the same list reports
\* success = 0 and skipped = len(images).
C6_SecondRunAllSkipped ==
    (Returned /\ run = 2) =>
        /\ stats.success = 0
        /\ stats.skipped = Len(images)

\* C6 amended: when the first call reported failed = 0, the second call on
\* the same list reports success = 0 and skipped = len(images).
C6_SecondRunAfterCleanFirst ==
    (Returned /\ run = 2 /\ first[1].failed = 0) =>
        /\ stats.success = 0
        /\ stats.skipped = Len(images)

\* The second call returned after a first call that wrote two files and
\* failed on none.
C6_Witness ==
    /\ Returned
    /\ run = 2
    /\ first[1].failed = 0
    /\ first[1].success >= 2
    /\ stats.skipped = Len(images)

\* ------------------------------------------------------------------------
\* The pool: concurrency, order and progress
\* ------------------------------------------------------------------------
\* The work items a worker has taken and not yet finished.
InProgress == {i \in Tasks : task[i].starts > 0 /\ task[i].pc /= "done"}
\* download_image returned a value for the item: skipped, written or failed.
Settled(i) == task[i].pc = "done" /\ task[i].res.kind = "value"
\* How the result of an item is counted, and the counts of a list of results
\* taken as a set.
Outcome(i) ==
    IF ~task[i].res.ok THEN "failed"
    ELSE IF SaysSkipped(task[i].res) THEN "skipped" ELSE "success"
CountOf(kind) == Cardinality({i \in Tasks : task[i].collected /\ Outcome(i) = kind})
\* The worker of the item opened the target file for writing.
Opened(i) ==
    \/ task[i].pc = "write"
    \/ /\ task[i].pc = "done"
       /\ \/ task[i].res = WrittenResult(Path(i))
          \/ task[i].res = Caught("ChunkedEncodingError")
\* The futures as_completed has yielded and the loop has counted.
Counted == {i \in Tasks : task[i].collected /\ task[i].res.kind = "value"}

C24_WitnessFull ==
    /\ max_workers > 1
    /\ Cardinality(InProgress) = max_workers

\* C25: for each target path at most one worker fetches the asset and opens
\* the file, also when two items of the list have the same target filename.
C25_OneWritePerPath ==
    \A i, j \in Tasks :
        (i /= j /\ Path(i) = Path(j)) => ~(Opened(i) /\ Opened(j))

\* C26: the stats download_all returns are the counts of the items' results
\* taken as a set: they do not depend on the order in which the futures
\* complete or are collected.
C26_StatsOrderIndependent ==
    Returned =>
        stats = [success |-> CountOf("success"), failed |-> CountOf("failed"),
                 skipped |-> CountOf("skipped")]

\* download_all returned after two items with different target paths; the
\* second of the list was collected before the first, and a written file
\* was counted besides failures.
C26_Witness ==
    /\ Returned
    /\ Len(images) = MaxTasks
    /\ Path(1) /= Path(2)
    /\ Len(failed_images) = 2
    /\ failed_images[1].img = 2
    /\ failed_images[2].img = 1

\* The first item failed and the second was written, under two workers.
C26_WitnessMixed ==
    /\ Returned
    /\ Len(images) = MaxTasks
    /\ Path(1) /= Path(2)
    /\ failed_images /= <<>>
    /\ failed_images[1].img = 1
    /\ stats.failed = 1
    /\ stats.success = 1
    /\ max_workers > 1

\* C27: within one call of download_all the completed-count never decreases
\* and moves by one; it is the number of futures collected so far and equals
\* len(images) at return; the count, the stats and the failure list change
\* only in a step of the collecting loop, never in a step of a worker.
C27_ProgressMonotone ==
    /\ [](pbar = Cardinality(Counted))
    /\ [](Returned => pbar = Len(images))
    /\ [][run' = run =>
            /\ pbar' \in {pbar, pbar + 1}
            /\ (pbar' = pbar + 1) <=>
                 (\E i \in Tasks : /\ ~task[i].collected /\ task'[i].collected
                                    /\ task[i].res.kind = "value")
            /\ (pbar' /= pbar \/ stats' /= stats \/ failed_images' /= failed_images) =>
                 /\ \A i \in Tasks : task'[i].pc = task[i].pc
                 /\ fs' = fs]_vars

\* download_all returned under two workers with every future counted, a
\* written file among them.
C27_Witness ==
    /\ Returned
    /\ pbar = MaxTasks
    /\ max_workers > 1
    /\ \E i \in Tasks : task[i].res = WrittenResult(Path(i))

\* ------------------------------------------------------------------------
\* An observation record processed in two runs
\* ------------------------------------------------------------------------
\* The path the loop computes for the k-th image of the record.
PathOfImage(k) ==
    IF record.images[k].url = "" THEN NoPath
    ELSE ObsFilePath(record, record.images[k])

\* C28: the directory of an observation record and the paths of its image
\* files are a function of the record: a second run over the same record
\* computes the paths the first run computed, and requests no image whose
\* file the first run wrote.
C28_SecondRunSamePaths ==
    arun = 2 =>
        LET n == Len(record.images)
        IN  /\ \A k \in 1..n : alog[k].path = PathOfImage(k)
            /\ \A m \in (n + 1)..Len(alog) :
                  /\ alog[m].path = alog[m - n].path
                  /\ alog[m - n].wrote => ~alog[m].requested

\* The second run is over: it found the file the first run had requested
\* and written for an image, whole or cut short, and requested another
\* image again whose first transfer had left no file.
C28_Witness ==
    /\ arun = 2
    /\ apc = "returned"
    /\ Len(record.images) = MaxAssets
    /\ \E k, l \in 1..MaxAssets :
          /\ alog[k].requested /\ alog[k].wrote
          /\ alog[MaxAssets + k].existed /\ ~alog[MaxAssets + k].requested
          /\ alog[l].requested /\ ~alog[l].wrote
          /\ alog[MaxAssets + l].requested

\* ========================================================================
\* The paginated fetch, on its own
\* ========================================================================
InitFetch ==
    /\ \/ /\ remote \in Collections
          /\ batch_size \in 1..MaxBatch
          /\ stop_at \in StopAts
       \/ /\ remote = ScenarioRemote
          /\ batch_size = DefaultBatchSize
          /\ stop_at \in {None, ScenarioStopAt}
    /\ FetchStart
    /\ DownloadIdle
    /\ ExtIdle

\* fetch_all_observations is called.
InitObsFetch ==
    /\ all_observations = <<>>
    /\ cursor = None
    /\ opc = "loop"
    /\ posts = <<>>
    /\ answers = <<>>
    /\ FetchIdle
    /\ DownloadIdle
    /\ SyncIdle
    /\ ToolIdle

NextFetch == FetchPage \/ FetchError \/ ObsFetchPage \/ ObsFetchError

SpecFetch == (InitFetch \/ InitObsFetch) /\ [][NextFetch]_vars

\* ========================================================================
\* Properties of fetch_all_images
\* ========================================================================
FetchReturned == fpc = "returned"

NoDuplicates(imgs) ==
    \A i, j \in 1..Len(imgs) : imgs[i].imageId = imgs[j].imageId => i = j

\* A page after which the loop has no further request to make: a short page,
\* or a page whose last image gives no cursor.
ShortPage(p) == Len(p) < batch_size
EndsPaging(p) == ShortPage(p) \/ ~Truthy(Last(p).createdAt)

\* C7: with stop_at set, whatever pages the remote serves and in whatever
\* order it lists its items, every image accumulated by fetch_all_images has
\* createdAt strictly greater than stop_at; an image with createdAt equal to
\* or below stop_at, or without createdAt, is never in the result.
C7_OnlyNewerThanStopAt ==
    Truthy(stop_at) =>
        \A i \in 1..Len(all_images) :
            /\ all_images[i].createdAt > stop_at
            /\ all_images[i].createdAt /= 0

\* fetch_all_images returned a non-empty result after cutting a page at an
\* image created exactly at stop_at, and a page held an image without
\* createdAt.
C7_Witness ==
    /\ FetchReturned
    /\ Truthy(stop_at)
    /\ all_images /= <<>>
    /\ \E p \in Range(pages) : \E i \in 1..Len(p) : p[i].createdAt = stop_at
    /\ \E p \in Range(pages) : \E i \in 1..Len(p) : p[i].createdAt = 0

\* C8: when the remote lists its items newest first, the list fetch_all_images
\* accumulates is in descending createdAt order and holds no image twice,
\* for every stop_at and every batch_size.
C8_DescendingNoDuplicates ==
    IsDescending(CreatedAts(remote)) =>
        /\ IsDescending(CreatedAts(all_images))
        /\ NoDuplicates(all_images)

\* A result spanning at least two pages, fetched with stop_at set.
C8_Witness ==
    /\ FetchReturned
    /\ IsDescending(CreatedAts(remote))
    /\ Truthy(stop_at)
    /\ Len(pages) >= 2
    /\ Len(all_images) > batch_size

\* C9: 240 items served in pages of 100, 100 and 40, batch_size 100 and
\* stop_at the createdAt of item 150: fetch_all_images returns exactly items
\* 1..149 and issues exactly 2 page requests.
C9_ScenarioResult ==
    (/\ FetchReturned
     /\ remote = ScenarioRemote
     /\ batch_size = DefaultBatchSize
     /\ stop_at = ScenarioStopAt)
    => /\ all_images = SubSeq(ScenarioRemote, 1, 149)
       /\ Len(all_images) = 149
       /\ Len(requests) = 2

\* The scenario ran to its return.
C9_Witness ==
    /\ FetchReturned
    /\ remote = ScenarioRemote
    /\ batch_size = DefaultBatchSize
    /\ stop_at = ScenarioStopAt
    /\ Len(pages[1]) = ScenarioPageSizes[1]

\* C10 as stated: with stop_at None the result is the concatenation of the
\* pages served, the last of them being the first short page.
C10_UntilShortPage ==
    (FetchReturned /\ stop_at = None) =>
        /\ all_images = Flatten(pages)
        /\ ShortPage(Last(pages))
        /\ \A i \in 1..(Len(pages) - 1) : ~ShortPage(pages[i])

\* C10 amended: with stop_at None the result is the concatenation of the
\* pages served, the last of them being the first page that is short or
\* whose last image has no createdAt.
C10_UntilShortOrCursorless ==
    (FetchReturned /\ stop_at = None) =>
        /\ all_images = Flatten(pages)
        /\ EndsPaging(Last(pages))
        /\ \A i \in 1..(Len(pages) - 1) : ~EndsPaging(pages[i])

\* A full fetch over three pages, and one that ended on a full page whose
\* last image has no createdAt.
C10_Witness ==
    /\ FetchReturned
    /\ stop_at = None
    /\ Len(pages) >= 3
    /\ all_images = remote
C10_WitnessCursorless ==
    /\ FetchReturned
    /\ stop_at = None
    /\ ~ShortPage(Last(pages))

\* ========================================================================
\* Properties of the two pagination loops
\* ========================================================================
ObsReturned == opc = "returned"

\* The k-th page was cut at an image that is not newer than stop_at.
Truncated(k) ==
    /\ Truthy(stop_at)
    /\ \E i \in 1..Len(pages[k]) : pages[k][i].createdAt <= stop_at

\* Nothing was requested after the k-th page of images / answer of
\* observations, and the loop has returned.
LastRequest(k) == Len(requests) = k /\ fpc = "returned"
LastPost(k) == Len(posts) = k /\ opc = "returned"
\* The request after the k-th one was issued or is the loop's next step.
RequestFollows(k) == Len(requests) > k \/ (Len(requests) = k /\ fpc = "loop")
PostFollows(k) == Len(posts) > k \/ (Len(posts) = k /\ opc = "loop")

\* The answer ends the observation paging: no results, or no next cursor.
EndsPosts(ans) == ans.results = <<>> \/ ans.next = None \/ ans.next = 0

\* C11 as stated: after an empty page or a page shorter than batch_size,
\* fetch_all_images requests nothing more, and after every other page it
\* requests the next one; after an empty results list or an answer without
\* next cursor, fetch_all_observations requests nothing more, and after
\* every other answer it requests the next one.
C11_StopOnlyOnShortPage ==
    /\ \A k \in 1..Len(pages) :
        IF Len(pages[k]) < batch_size THEN LastRequest(k) ELSE RequestFollows(k)
    /\ \A k \in 1..Len(answers) :
        IF EndsPosts(answers[k]) THEN LastPost(k) ELSE PostFollows(k)

\* C11 amended: fetch_all_images requests nothing more after a page that is
\* empty, shorter than batch_size, cut at stop_at, or whose last image has no
\* createdAt, and requests the next page after every other page;
\* fetch_all_observations requests nothing more after an empty results list
\* or an answer without next cursor, and the next page after every other
\* answer.
C11_StopRule ==
    /\ \A k \in 1..Len(pages) :
        IF \/ Len(pages[k]) < batch_size
           \/ Truncated(k)
           \/ ~Truthy(Last(pages[k]).createdAt)
        THEN LastRequest(k)
        ELSE RequestFollows(k)
    /\ \A k \in 1..Len(answers) :
        IF EndsPosts(answers[k]) THEN LastPost(k) ELSE PostFollows(k)

\* fetch_all_images returned after a full page followed by a short one that
\* was not empty.
C11_Witness ==
    /\ FetchReturned
    /\ Len(pages) >= 2
    /\ Len(pages[1]) = batch_size
    /\ Last(pages) /= <<>>
    /\ Len(Last(pages)) < batch_size
    /\ Len(requests) = Len(pages)

\* fetch_all_observations returned after an answer with a next cursor and
\* one with results but without.
C11_WitnessObservations ==
    /\ ObsReturned
    /\ Len(answers) >= 2
    /\ Last(answers).results /= <<>>
    /\ Last(answers).next = None

\* The images of a page before the first one that is not newer than stop.
CutAt(batch, stop) ==
    LET old == {i \in 1..Len(batch) : batch[i].createdAt <= stop}
    IN  IF old = {} THEN batch
        ELSE SubSeq(batch, 1, (CHOOSE i \in old : \A j \in old : i <= j) - 1)

\* The images accumulated from the first k pages.
KeptUpTo(k) == Flatten([j \in 1..k |-> CutAt(pages[j], stop_at)])

\* C12: with stop_at set, the result is the pages served, each cut at its
\* first image with createdAt <= stop_at; a page that was cut is the last
\* one requested; every request after the first carries the createdAt of
\* the last image accumulated so far; and, the remote listing newest first,
\* the cursors strictly decrease and no image is served in two pages.
C12_TruncateStopCursor ==
    Truthy(stop_at) =>
        /\ all_images = KeptUpTo(Len(pages))
        /\ \A k \in 1..Len(pages) : Truncated(k) => LastRequest(k)
        /\ requests /= <<>> => ~Truthy(requests[1])
        /\ \A k \in 2..Len(requests) :
            /\ KeptUpTo(k - 1) /= <<>>
            /\ requests[k] = Last(KeptUpTo(k - 1)).createdAt
        /\ IsDescending(CreatedAts(remote)) =>
            /\ \A k \in 2..(Len(requests) - 1) : requests[k + 1] < requests[k]
            /\ NoDuplicates(Flatten(pages))

\* A fetch with stop_at set that kept a full page and stopped at the second
\* one, a full page cut after its first image.
C12_Witness ==
    /\ FetchReturned
    /\ Truthy(stop_at)
    /\ batch_size > 1
    /\ Len(pages) = 2
    /\ Len(pages[2]) = batch_size
    /\ Truncated(2)
    /\ Len(all_images) = batch_size + 1
    /\ requests[2] = all_images[batch_size].createdAt

\* C13: once a page request of fetch_all_images or fetch_all_observations
\* has failed, the call has raised: it issues no further request and never
\* returns a list.
C13_ErrorPropagates ==
    /\ Len(requests) > Len(pages) => fpc = "raised"
    /\ Len(posts) > Len(answers) => opc = "raised"

\* The second page request failed after a first page had been accumulated.
C13_Witness ==
    /\ fpc = "raised"
    /\ Len(requests) = 2
    /\ all_images /= <<>>
C13_WitnessObservations ==
    /\ opc = "raised"
    /\ Len(posts) = 2
    /\ all_observations /= <<>>

\* ========================================================================
\* The credential cache: load_cached_credentials, save_cached_credentials,
\* update_last_sync
\* ========================================================================
\* What load_cached_credentials returns when it returns None.
NoData == [file |-> "none"]

\* data.get("access_token") and data.get("children")
HasCredentials(data) ==
    /\ Has(data, "access_token") /\ data.access_token /= ""
    /\ Has(data, "children") /\ data.children /= <<>>

load_cached_credentials(file) ==
    IF file.file = "object" /\ HasCredentials(file) THEN file ELSE NoData

\* json.load yields a value that is not a dict: data.get(...) in
\* load_cached_credentials and existing.get(...) in save_cached_credentials
\* raise AttributeError, data["last_sync"] = {} in update_last_sync raises
\* TypeError; the except clauses name json.JSONDecodeError and OSError only.
CacheRaises(file) == file.file = "list"

\* data.get("last_sync", {})
GetLastSync(data) == IF Has(data, "last_sync") THEN data.last_sync ELSE NoSync

\* Variant that writes an empty last_sync whenever none is passed.
save_cached_credentials_Clobbers(file, token, children, given, ls, now) ==
    MkCache(token, children, now, IF given THEN ls ELSE NoSync)

\* save_cached_credentials(output_dir, access_token, children, last_sync):
\* `given` tells whether last_sync is not None; the result is the file
\* written.
save_cached_credentials(file, token, children, given, ls, now) ==
    LET existing_last_sync ==
            IF file.file = "object" /\ ~given THEN GetLastSync(file) ELSE NoSync
    IN  MkCache(token, children, now, IF given THEN ls ELSE existing_last_sync)

\* Variant that rewrites the file with nothing but the new entry.
update_last_sync_Resets(file, child_id, timestamp) ==
    IF file.file = "object"
    THEN [file |-> "object", last_sync |-> [NoSync EXCEPT ![child_id] = timestamp]]
    ELSE file

\* Variant that creates the file when there is none.
update_last_sync_Creates(file, child_id, timestamp) ==
    [file |-> "object", last_sync |-> [NoSync EXCEPT ![child_id] = timestamp]]

\* update_last_sync(output_dir, child_id, timestamp): the file afterwards.
\* Nothing is written when the file is absent or is not JSON.
update_last_sync(file, child_id, timestamp) ==
    IF file.file = "object"
    THEN [k \in (DOMAIN file) \cup {"last_sync"} |->
            IF k = "last_sync"
            THEN [GetLastSync(file) EXCEPT ![child_id] = timestamp]
            ELSE file[k]]
    ELSE file

\* The last_sync entry of a child as the file holds it, None if it holds none.
Stored(file, c) ==
    IF file.file = "object" /\ Has(file, "last_sync") THEN file.last_sync[c] ELSE None

\* ========================================================================
\* The run orchestrator: main
\* ========================================================================
\* ------------------------------------------------------------------------
\* The remote collections and the local files
\* ------------------------------------------------------------------------
\* The imageId of the k-th image published: ids differ in their first
\* character, as the ids the service hands out differ in their first eight.
SyncId(k) == <<Digit(k), "a", "b", "c", "d", "e", "f", "0", "1">>
SyncItem(k, ts) == MkImage(SyncId(k), ts, "https://img/big", Missing, Missing, Missing)

\* child_output_dir: a directory per child when several were selected,
\* the output directory itself otherwise.
ChildDir(c, n) == IF n > 1 THEN c ELSE "."
SyncPath(dir, image) == [dir |-> dir, name |-> GenerateFilename(image)]
SyncPaths ==
    {SyncPath(d, SyncItem(k, ts)) :
        d \in Children \cup {"."}, k \in 1..MaxSerial, ts \in 0..MaxSerial}
    \cup {[dir |-> d, name |-> [date |-> 0 - 1, id |-> <<"o", "b", "s">>]] :
            d \in Children \cup {"."}}

\* The whole of fetch_all_images as a function of the collection: the loop
\* of FetchIteration, from the request with cursor `older` on.
RECURSIVE FetchFrom(_, _, _, _)
FetchFrom(coll, older, stop, size) ==
    LET got == ServerPage(coll, older, size)
        kept == Filtered(got, stop)
        reached == Truthy(stop) /\ HitsExisting(got, stop)
    IN  IF got = <<>> THEN <<>>
        ELSE IF StopsAfter(kept, reached, size) THEN kept
        ELSE IF ~Truthy(NextCursor(kept)) THEN kept
        ELSE kept \o FetchFrom(coll, NextCursor(kept), stop, size)

\* A new image is tagged with the child and listed first: its createdAt is
\* later than that of every image published before (the k-th image is
\* created at time k), or it carries no createdAt.
Publish(c) ==
    /\ spc = "idle"
    /\ runs < MaxRuns
    /\ serial < MaxSerial
    /\ \E ts \in {0, serial + 1} :
        feed' = [feed EXCEPT ![c] = <<SyncItem(serial + 1, ts)>> \o @]
    /\ serial' = serial + 1
    /\ UNCHANGED <<cache, obs_images, fault, spc, args, access_token, todo, selected, last_sync,
                   child_stop_at, child_images, di, results, runs, phase, wlog>>
    /\ UNCHANGED <<dlVars, fetchVars, obsVars, toolVars>>

\* An image is removed from the remote collection.
Withdraw(c) ==
    /\ spc = "idle"
    /\ runs < MaxRuns
    /\ \E i \in 1..Len(feed[c]) :
        feed' = [feed EXCEPT ![c] = SubSeq(@, 1, i - 1) \o SubSeq(@, i + 1, Len(@))]
    /\ UNCHANGED <<cache, obs_images, fault, serial, spc, args, access_token, todo, selected,
                   last_sync, child_stop_at, child_images, di, results, runs,
                   phase, wlog>>
    /\ UNCHANGED <<dlVars, fetchVars, obsVars, toolVars>>

\* ------------------------------------------------------------------------
\* main, up to the loop over the children
\* ------------------------------------------------------------------------
\* The command lines: credentials from the cache, from a browser login or
\* given by hand (--child-id and --access-token), with or without --full,
\* --dry-run and --observations.
ArgSets ==
    {a \in [creds : {"cached", "login", "manual"}, child_id : Children,
            login : BOOLEAN, full : BOOLEAN, dry_run : BOOLEAN,
            observations : BOOLEAN] :
        /\ a.login = (a.creds = "login")
        /\ a.login => ~a.full}

\* What the browser login yields
LoginToken == "token-2"
LoginChildren == {<<"c1", "c2">>}
\* --access-token
ManualToken == "token-3"

\* select_child: one of the children, or all of them
Selections(children) == {<<children[i]>> : i \in 1..Len(children)} \cup {children}

\* From the start of main to the loop over the children.  Without usable
\* credentials main asks for a child id and goes on without a token.
RunStart ==
    /\ spc = "idle"
    /\ runs < MaxRuns
    /\ ~CacheRaises(cache)
    /\ runs' = runs + 1
    /\ \E a \in ArgSets, browser \in LoginChildren :
        LET cached == IF a.creds = "cached"
                      THEN load_cached_credentials(cache) ELSE NoData
            token == IF a.login THEN LoginToken
                     ELSE IF a.creds = "manual" THEN ManualToken
                     ELSE IF cached /= NoData THEN cached.access_token ELSE ""
            children == IF a.login THEN browser
                        ELSE IF cached /= NoData THEN cached.children ELSE <<>>
            written == IF a.login
                       THEN save_cached_credentials(cache, token, children,
                                                    FALSE, NoSync, runs + 1)
                       ELSE cache
            reloaded == load_cached_credentials(written)
        IN  /\ args' = a
            /\ access_token' = token
            /\ cache' = written
            /\ wlog' = IF a.login
                       THEN [op |-> "save", before |-> cache, child |-> "",
                             t |-> None, token |-> token, children |-> children,
                             given |-> FALSE]
                       ELSE wlog
            /\ IF children /= <<>>
               THEN /\ a.child_id = "c1"
                    /\ \E sel \in Selections(children) :
                        todo' = sel /\ selected' = Len(sel)
               ELSE todo' = <<a.child_id>> /\ selected' = 1
            /\ last_sync' = IF reloaded /= NoData THEN GetLastSync(reloaded) ELSE NoSync
    /\ spc' = "fetch"
    /\ child_stop_at' = None
    /\ child_images' = <<>>
    /\ di' = 0
    /\ results' = <<>>
    /\ phase' = NoPhase
    /\ fs' = fs
    /\ UNCHANGED <<feed, obs_images, fault, serial>>
    /\ UNCHANGED <<poolVars, assetVars, fetchVars, obsVars, toolVars>>

\* ------------------------------------------------------------------------
\* main: the body of the loop, for the child at the head of todo
\* ------------------------------------------------------------------------
Child == Head(todo)

\* The loop goes on with the next child, or is over.
NextChild ==
    /\ todo' = Tail(todo)
    /\ spc' = IF Tail(todo) = <<>> THEN "done" ELSE "fetch"

\* The process is gone: what it held in memory is gone with it.
ProcessGone ==
    /\ spc' = "idle"
    /\ args' = NoArgs
    /\ access_token' = ""
    /\ todo' = <<>>
    /\ selected' = 0
    /\ last_sync' = NoSync
    /\ child_stop_at' = None
    /\ child_images' = <<>>
    /\ di' = 0
    /\ results' = <<>>
    /\ phase' = NoPhase
    /\ wlog' = NoWrite

\* main prints "All done!" and returns, or the process ends with the
\* traceback of an exception no except clause caught.
RunEnd ==
    /\ spc \in {"done", "aborted"}
    /\ ProcessGone
    /\ UNCHANGED <<cache, feed, obs_images, fault, serial, runs>>
    /\ UNCHANGED <<dlVars, fetchVars, obsVars, toolVars>>

\* The observation stage follows the image stage when --observations is
\* given; otherwise the child is done.
AfterImages ==
    IF args.observations
    THEN spc' = "observations" /\ UNCHANGED todo
    ELSE NextChild

\* The files of the output directory
Files == {p \in DOMAIN fs : fs[p] /= Absent}

\* History: the state in which the processing of the child begins.
PhaseStart ==
    [NoPhase EXCEPT !.child = Child, !.before = Stored(cache, Child),
                    !.cache0 = cache, !.files0 = Cardinality(Files)]

\* The errors the except clauses of main catch: requests.HTTPError with
\* status 401, 403 or another one, and any other RequestException.
RequestErrors == {"HTTP 401", "HTTP 403", "HTTP 500", "RequestException"}

\* Variant that looks at neither --login nor --full.
StopAtFor_Always(c) == last_sync[c]

\* stop_at = last_sync.get(child_id) if not (args.login or args.full) else None
StopAtFor(c) == IF args.login \/ args.full THEN None ELSE last_sync[c]

\* images = downloader.fetch_all_images(stop_at=stop_at), and the branches
\* that follow it when nothing is to be downloaded.
ChildFetch ==
    /\ spc = "fetch"
    /\ access_token /= ""
    /\ LET stop == StopAtFor(Child)
           imgs == FetchFrom(feed[Child], None, stop, DefaultBatchSize)
       IN  /\ child_stop_at' = stop
           /\ child_images' = imgs
           /\ phase' = [PhaseStart EXCEPT !.fetched = TRUE]
           /\ IF imgs = <<>> \/ args.dry_run
              THEN AfterImages /\ di' = 0
              ELSE spc' = "download" /\ di' = 1 /\ UNCHANGED todo
    /\ results' = <<>>
    /\ UNCHANGED <<cache, feed, obs_images, fault, serial, args, access_token, selected, last_sync,
                   runs, wlog>>
    /\ UNCHANGED <<dlVars, fetchVars, obsVars, toolVars>>

\* A page request of fetch_all_images raises (401, 403, another HTTP status
\* or a transport error): the except clauses of main report it and the loop
\* goes on with the next child.
ChildFetchError ==
    /\ spc = "fetch"
    /\ child_stop_at' = StopAtFor(Child)
    /\ child_images' = <<>>
    /\ phase' = [PhaseStart EXCEPT !.fatal = TRUE, !.error = fault]
    /\ NextChild
    /\ di' = 0
    /\ results' = <<>>
    /\ UNCHANGED <<cache, feed, obs_images, fault, serial, args, access_token, selected, last_sync,
                   runs, wlog>>
    /\ UNCHANGED <<dlVars, fetchVars, obsVars, toolVars>>

\* download_all settles one more image: the file was there, or it is
\* written, or the download fails before or after the file was opened.
DownloadItem ==
    /\ spc = "download"
    /\ di <= Len(child_images)
    /\ LET path == SyncPath(ChildDir(Child, selected), child_images[di])
           name == GenerateFilename(child_images[di])
       IN  IF Exists(fs, path)
           THEN /\ results' = Append(results, SkippedResult(name))
                /\ fs' = fs
           ELSE \/ /\ results' = Append(results, WrittenResult(name))
                   /\ fs' = [fs EXCEPT ![path] = ChunksPerFile]
                \/ /\ results' = Append(results, Caught("HTTPError 500"))
                   /\ fs' = fs
                \/ /\ results' = Append(results, Caught("ChunkedEncodingError"))
                   /\ fs' = [fs EXCEPT ![path] = 0]
    /\ di' = di + 1
    /\ UNCHANGED <<cache, feed, obs_images, fault, serial, spc, args, access_token, todo, selected,
                   last_sync, child_stop_at, child_images, runs, phase, wlog>>
    /\ UNCHANGED <<poolVars, assetVars, fetchVars, obsVars, toolVars>>

\* Variant in which download_all returns while downloads are pending.
AllSettled_Early(i, imgs) == TRUE

\* download_all returns once every future has completed.
AllSettled(i, imgs) == i > Len(imgs)

\* Variant that takes the timestamp of the oldest image fetched.
NewestTimestamp_Oldest(imgs) == Last(imgs).createdAt

\* images[0].get("createdAt")
NewestTimestamp(imgs) == imgs[1].createdAt

\* download_all returns, and main records the newest image:
\*   newest_timestamp = images[0].get("createdAt")
\*   if newest_timestamp: update_last_sync(output_dir, child_id, newest_timestamp)
DownloadReturn ==
    /\ spc = "download"
    /\ AllSettled(di, child_images)
    /\ LET newest_timestamp == NewestTimestamp(child_images)
       IN  IF Truthy(newest_timestamp)
           THEN /\ cache' = update_last_sync(cache, Child, newest_timestamp)
                /\ wlog' = [op |-> "update", before |-> cache, child |-> Child,
                            t |-> newest_timestamp, token |-> "",
                            children |-> <<>>, given |-> FALSE]
                /\ phase' = [phase EXCEPT !.downloaded = TRUE, !.updated = TRUE]
           ELSE /\ UNCHANGED <<cache, wlog>>
                /\ phase' = [phase EXCEPT !.downloaded = TRUE]
    /\ AfterImages
    /\ UNCHANGED <<feed, obs_images, fault, serial, args, access_token, selected, last_sync,
                   child_stop_at, child_images, di, results, runs>>
    /\ UNCHANGED <<dlVars, fetchVars, obsVars, toolVars>>

\* The image file of an observation of the child, under
\* observations/<dir name>/img/ of the child's directory.
ObsAssetName == [date |-> UnknownDate, id |-> <<"o", "b", "s">>]
ObsAssetPath(c, n) == [dir |-> ChildDir(c, n), name |-> ObsAssetName]

\* observations = downloader.fetch_all_observations() and the processing of
\* the observations: when the child's observation has an image,
\* download_observation_images writes its file unless it is there.
\* args.dry_run is not looked at.
ObservationsDone ==
    /\ spc = "observations"
    /\ IF obs_images /\ ~Exists(fs, ObsAssetPath(Child, selected))
       THEN /\ fs' = [fs EXCEPT ![ObsAssetPath(Child, selected)] = ChunksPerFile]
            /\ phase' = [phase EXCEPT !.assets = @ + 1]
       ELSE UNCHANGED <<fs, phase>>
    /\ NextChild
    /\ UNCHANGED <<cache, feed, obs_images, fault, serial, args, access_token, selected, last_sync,
                   child_stop_at, child_images, di, results, runs, wlog>>
    /\ UNCHANGED <<poolVars, assetVars, fetchVars, obsVars, toolVars>>

\* A request of fetch_all_observations raises an HTTP or transport error:
\* the except clauses of main report it and the loop goes on.
ObservationsError ==
    /\ spc = "observations"
    /\ phase' = [phase EXCEPT !.fatal = TRUE, !.error = fault]
    /\ NextChild
    /\ UNCHANGED <<cache, feed, obs_images, fault, serial, args, access_token, selected, last_sync,
                   child_stop_at, child_images, di, results, runs, wlog>>
    /\ UNCHANGED <<dlVars, fetchVars, obsVars, toolVars>>

\* The GraphQL answer carries an "errors" member: fetch_observations raises
\* ValueError, which no except clause of main names; it leaves main.
ObservationsGraphQLError ==
    /\ spc = "observations"
    /\ phase' = [phase EXCEPT !.fatal = TRUE, !.error = "ValueError"]
    /\ spc' = "aborted"
    /\ UNCHANGED <<cache, feed, obs_images, fault, serial, args, access_token, todo, selected,
                   last_sync, child_stop_at, child_images, di, results, runs, wlog>>
    /\ UNCHANGED <<dlVars, fetchVars, obsVars, toolVars>>

\* The cache file holds JSON that is not an object: the first call that
\* reads it (load_cached_credentials at the start of main or before the
\* loop, save_cached_credentials after a login) raises, and main is left.
RunAbort ==
    /\ spc = "idle"
    /\ runs < MaxRuns
    /\ CacheRaises(cache)
    /\ runs' = runs + 1
    /\ spc' = "aborted"
    /\ UNCHANGED <<cache, feed, obs_images, fault, serial, args, access_token, todo, selected,
                   last_sync, child_stop_at, child_images, di, results, phase, wlog>>
    /\ UNCHANGED <<dlVars, fetchVars, obsVars, toolVars>>

\* The process is interrupted or killed while main runs.
Interrupt ==
    /\ spc \notin {"idle", "done", "aborted"}
    /\ ProcessGone
    /\ UNCHANGED <<cache, feed, obs_images, fault, serial, runs>>
    /\ UNCHANGED <<dlVars, fetchVars, obsVars, toolVars>>

\* The cache files a first run may find
InitialCaches ==
    {CacheAbsent, CacheCorrupt,
     MkCache("token-1", <<"c1", "c2">>, 0, NoSync),
     Without(MkCache("token-1", <<"c1", "c2">>, 0, NoSync), "last_sync")}

InitSync ==
    /\ cache \in InitialCaches
    /\ feed = [c \in Children |-> <<>>]
    /\ obs_images = FALSE
    /\ fault = "RequestException"
    /\ serial = 0
    /\ spc = "idle"
    /\ args = NoArgs
    /\ access_token = ""
    /\ todo = <<>>
    /\ selected = 0
    /\ last_sync = NoSync
    /\ child_stop_at = None
    /\ child_images = <<>>
    /\ di = 0
    /\ results = <<>>
    /\ runs = 0
    /\ phase = NoPhase
    /\ wlog = NoWrite
    /\ fs = [p \in SyncPaths |-> Absent]
    /\ PoolIdle
    /\ AssetsIdle
    /\ FetchIdle
    /\ ObsIdle
    /\ ToolIdle

NextSync ==
    \/ \E c \in Children : Publish(c)
    \/ \E c \in Children : Withdraw(c)
    \/ RunStart
    \/ ChildFetch
    \/ ChildFetchError
    \/ DownloadItem
    \/ DownloadReturn
    \/ ObservationsDone
    \/ ObservationsError
    \/ ObservationsGraphQLError
    \/ RunEnd
    \/ Interrupt

SpecSync == InitSync /\ [][NextSync]_vars

\* ------------------------------------------------------------------------
\* One run of main, on an output directory earlier runs or the user's
\* editor left in any state
\* ------------------------------------------------------------------------
\* The cache files the run may find: also a JSON list, an object with a
\* last_sync entry, an object whose access_token was removed, and one whose
\* list of children is empty.
RunCaches ==
    InitialCaches \cup
    {CacheList,
     MkCache("token-1", <<"c1", "c2">>, 0, [NoSync EXCEPT !["c1"] = 1]),
     MkCache("token-1", <<>>, 0, [NoSync EXCEPT !["c1"] = 1]),
     Without(MkCache("", <<"c1", "c2">>, 0, [NoSync EXCEPT !["c1"] = 1]),
             "access_token")}

InitRun ==
    /\ cache \in RunCaches
    /\ feed = [c \in Children |-> <<>>]
    /\ obs_images \in BOOLEAN
    /\ fault \in RequestErrors
    /\ serial = 0
    /\ spc = "idle"
    /\ args = NoArgs
    /\ access_token = ""
    /\ todo = <<>>
    /\ selected = 0
    /\ last_sync = NoSync
    /\ child_stop_at = None
    /\ child_images = <<>>
    /\ di = 0
    /\ results = <<>>
    /\ runs = MaxRuns - 1
    /\ phase = NoPhase
    /\ wlog = NoWrite
    /\ fs = [p \in SyncPaths |-> Absent]
    /\ PoolIdle
    /\ AssetsIdle
    /\ FetchIdle
    /\ ObsIdle
    /\ ToolIdle

\* The steps of such a run: those of main, and its end in the first call
\* that reads a cache file json.load turns into something else than a dict.
NextRun == NextSync \/ RunAbort

SpecRun == InitRun /\ [][NextRun]_vars

\* ========================================================================
\* Properties of the orchestrator and of the credential cache
\* ========================================================================
\* The child whose processing `phase` describes, and its directory.
InPhase == phase.child /= ""
PhaseDir == ChildDir(phase.child, selected)
\* The file of a fetched image is there.
FilePresent(img) == Exists(fs, SyncPath(PhaseDir, img))
\* A step in which the process dies before main reached its end.
Interrupted == spc \notin {"idle", "done", "aborted"} /\ spc' = "idle"

\* C14: once last_sync[child] = t has been written, every image fetched for
\* that child with createdAt <= t has its file in the child's directory.
C14_WatermarkBehindFiles ==
    (InPhase /\ phase.updated) =>
        \A i \in 1..Len(child_images) :
            child_images[i].createdAt <= Stored(cache, phase.child)
                => FilePresent(child_images[i])

\* C15: when a fatal error occurred while a child was being processed, the
\* stored last_sync of that child is what it was when the processing began.
C15_FatalKeepsLastSync ==
    (InPhase /\ phase.fatal) => Stored(cache, phase.child) = phase.before

\* C16: last_sync[child] is written only once download_all has settled every
\* image of the child and returned, and until then it keeps the value it
\* had; a process that dies on the way leaves the cache file and every file
\* of the output directory as they were; and an incremental run starts from
\* the stored value.
C16_WriteAfterAllTasks ==
    /\ [](InPhase =>
            IF phase.updated
            THEN /\ phase.downloaded
                 /\ di > Len(child_images)
                 /\ Len(results) = Len(child_images)
            ELSE Stored(cache, phase.child) = phase.before)
    /\ []((InPhase /\ phase.fetched /\ args.creds = "cached" /\ ~args.full)
            => child_stop_at = phase.before)
    /\ [][Interrupted => (cache' = cache /\ fs' = fs)]_vars

\* A download of two images of which one was written and one failed, and
\* the write of last_sync that followed.
C16_Witness ==
    /\ InPhase
    /\ phase.updated
    /\ Len(child_images) = 2
    /\ \E i \in 1..2 : results[i].ok /\ ~results[i].suffix
    /\ \E i \in 1..2 : ~results[i].ok

\* C17: the stored last_sync of a child never decreases.
C17_LastSyncMonotone ==
    [][\A c \in Children :
        Truthy(Stored(cache, c)) => Stored(cache', c) >= Stored(cache, c)]_vars

\* C18 as stated: after download_all ran on a non-empty fetch result the
\* stored last_sync[child] is the createdAt of the first image fetched, and
\* after an empty fetch result it is what it was.
C18_NewestRecorded ==
    /\ (InPhase /\ phase.downloaded)
        => Stored(cache, phase.child) = child_images[1].createdAt
    /\ (InPhase /\ phase.fetched /\ child_images = <<>>)
        => Stored(cache, phase.child) = phase.before

\* C18 amended: the same, provided the cache file is there and holds a JSON
\* object and the first image fetched has a createdAt.
C18_NewestRecordedInCache ==
    /\ (InPhase /\ phase.downloaded /\ cache.file = "object"
            /\ Truthy(child_images[1].createdAt))
        => Stored(cache, phase.child) = child_images[1].createdAt
    /\ (InPhase /\ phase.fetched /\ child_images = <<>>)
        => Stored(cache, phase.child) = phase.before

\* Two images were fetched and downloaded and the newer one's createdAt was
\* stored in place of an older value.
C18_Witness ==
    /\ InPhase
    /\ phase.downloaded
    /\ Len(child_images) = 2
    /\ child_images[1].createdAt > child_images[2].createdAt
    /\ Truthy(child_images[2].createdAt)
    /\ Stored(cache, phase.child) = child_images[1].createdAt

\* C19: save_cached_credentials called without last_sync writes a file that
\* holds every last_sync entry the file held before, and the access_token
\* and children it was called with.
C19_SavePreservesLastSync ==
    (wlog.op = "save" /\ ~wlog.given) =>
        /\ \A c \in Children :
            Truthy(Stored(wlog.before, c)) => Stored(cache, c) = Stored(wlog.before, c)
        /\ cache.file = "object"
        /\ cache.access_token = wlog.token
        /\ cache.children = wlog.children

\* A login saved new credentials over a cache that held another token and a
\* last_sync entry.
C19_Witness ==
    /\ wlog.op = "save"
    /\ wlog.before.file = "object"
    /\ wlog.before.access_token /= wlog.token
    /\ \E c \in Children : Truthy(Stored(wlog.before, c))

\* C20: update_last_sync(child_id, t) leaves a file that differs from the one
\* before in last_sync[child_id] only: access_token, children, saved_at and
\* the entries of the other children are the same, and a file that is
\* absent or not JSON is left alone.
C20_UpdateTouchesOneEntry ==
    wlog.op = "update" =>
        IF wlog.before.file = "object"
        THEN /\ DOMAIN cache = (DOMAIN wlog.before) \cup {"last_sync"}
             /\ \A k \in (DOMAIN wlog.before) \ {"last_sync"} :
                    cache[k] = wlog.before[k]
             /\ \A c \in Children \ {wlog.child} :
                    Stored(cache, c) = Stored(wlog.before, c)
             /\ Stored(cache, wlog.child) = wlog.t
        ELSE cache = wlog.before

\* The entry of one child was updated in a file that held an entry of the
\* other child.
C20_Witness ==
    /\ wlog.op = "update"
    /\ wlog.before.file = "object"
    /\ \E c \in Children \ {wlog.child} : Truthy(Stored(wlog.before, c))
    /\ Stored(cache, wlog.child) /= Stored(wlog.before, wlog.child)

\* ------------------------------------------------------------------------
\* Errors that reach main
\* ------------------------------------------------------------------------
\* The run was left by an exception raised before any child was processed.
LeftBeforeChildren == spc = "aborted" /\ ~InPhase
\* The processing of phase.child ended with a fatal error.
FatalInPhase == InPhase /\ phase.fatal
\* access_token, children and last_sync as the file holds them.
CachedState(file) ==
    IF file.file = "object" /\ Has(file, "saved_at")
    THEN Without(file, "saved_at") ELSE file

\* C21: whatever the cache file holds (nothing, text that is not JSON, JSON
\* that is not an object, an object lacking access_token, children or
\* last_sync), no operation on it raises: no run is left by an exception
\* before it comes to process a child.
C21_MalformedCacheNeverAborts == ~LeftBeforeChildren

\* C22: a fatal error met while a child is processed (an HTTP error, a
\* transport error, an error reported by the GraphQL endpoint) ends the
\* processing of that child only: main goes on with the next selected child,
\* or is at its end when there is none.
C22_FatalAbortsOneIdentity ==
    FatalInPhase =>
        /\ spc \in {"fetch", "done"}
        /\ spc = "done" <=> todo = <<>>
        /\ todo /= <<>> => Head(todo) /= phase.child

\* C23: after an HTTP 401 or 403 met while a child is processed, the cache
\* file holds the access_token, children and last_sync it held when the
\* processing of that child began.
C23_AuthErrorKeepsCache ==
    (FatalInPhase /\ phase.error \in {"HTTP 401", "HTTP 403"}) =>
        CachedState(cache) = CachedState(phase.cache0)

\* ------------------------------------------------------------------------
\* stop_at and --dry-run
\* ------------------------------------------------------------------------
\* C29 as stated: stop_at is the last_sync entry the cache file stores for
\* the child unless --full or --login was given, and None when the file
\* stores none or one of the two options was given.
C29_StopAtFromStored ==
    InPhase =>
        child_stop_at = (IF args.login \/ args.full
                         THEN None ELSE Stored(phase.cache0, phase.child))

\* C29, amended: stop_at is the stored last_sync entry of the child when the
\* cache file loads (an object with an access_token and a non-empty list of
\* children) and neither --full nor --login was given; it is None when
\* --full or --login was given, when the file does not load, and when it
\* stores no entry for the child.
C29_StopAtFromLoadedCache ==
    InPhase =>
        child_stop_at =
            (IF args.login \/ args.full
                \/ load_cached_credentials(phase.cache0) = NoData
             THEN None ELSE Stored(phase.cache0, phase.child))

\* An incremental fetch with a stored entry, and a --full run that ignores
\* the entry the file stores.
C29_Witness ==
    /\ InPhase /\ phase.fetched
    /\ ~args.full /\ ~args.login
    /\ Truthy(child_stop_at)
    /\ child_stop_at = Stored(phase.cache0, phase.child)

C29_WitnessFull ==
    /\ InPhase /\ phase.fetched
    /\ args.full
    /\ Truthy(Stored(phase.cache0, phase.child))
    /\ child_stop_at = None

\* C30: while a child is processed under --dry-run, no asset is downloaded,
\* no image file is added to the output directory, and the cache file keeps
\* the last_sync entries it had.
C30_DryRunWritesNothing ==
    (InPhase /\ args.dry_run) =>
        /\ phase.assets = 0
        /\ Cardinality(Files) = phase.files0
        /\ ~phase.downloaded
        /\ \A c \in Children : Stored(cache, c) = Stored(phase.cache0, c)

\* ========================================================================
\* Termination of the pagination loops
\* ========================================================================
\* Every request that can be issued is issued or fails: neither loop waits
\* for anything but the answer to its request.
SpecFetchFair == SpecFetch /\ WF_vars(NextFetch)

\* ceil(n / size)
Ceil(n, size) == (n + size - 1) \div size
\* The fetch loops have been left, by return or by an exception.
FetchLoopsLeft == fpc /= "loop" /\ opc /= "loop"
\* The remote lists its images newest first.
NewestFirst == IsDescending(CreatedAts(remote))
\* Every answer that carries a continuation cursor is a full page of
\* `first` observations (MaxResults of them).
ContinuedPagesFull ==
    \A j \in 1..Len(answers) :
        (answers[j].results /= <<>> /\ MorePages(answers[j].next)) =>
            Len(answers[j].results) = MaxResults

\* C36 as stated: fetch_all_images issues at most
\* ceil(size / batch_size) + 1 page requests on every finite collection
\* served in pages strictly older than the cursor, and
\* fetch_all_observations at most ceil(size / batch_size) + 1 on every
\* finite collection.
C36_RequestBound ==
    /\ Len(requests) <= Ceil(Len(remote), batch_size) + 1
    /\ Len(posts) <= Ceil(Len(all_observations), MaxResults) + 1

\* C36, amended: both loops are left after finitely many requests; the
\* bound ceil(size / batch_size) + 1 on the requests holds for
\* fetch_all_images when the remote lists its images newest first, and for
\* fetch_all_observations when every answer with a continuation cursor is a
\* full page.
C36_TerminatesBoundWhenOrdered ==
    /\ <>FetchLoopsLeft
    /\ [](NewestFirst => Len(requests) <= Ceil(Len(remote), batch_size) + 1)
    /\ [](ContinuedPagesFull =>
            Len(posts) <= Ceil(Len(all_observations), MaxResults) + 1)

\* fetch_all_images returned after the largest number of requests the bound
\* allows, the last one answered with an empty page.
C36_Witness ==
    /\ fpc = "returned"
    /\ NewestFirst
    /\ batch_size > 1
    /\ Len(requests) = Ceil(Len(remote), batch_size) + 1
    /\ Len(requests) >= 3
    /\ Last(pages) = <<>>

\* fetch_all_observations returned after full pages and a last, short one.
C36_WitnessObservations ==
    /\ opc = "returned"
    /\ ContinuedPagesFull
    /\ Len(posts) = MaxPosts
    /\ Len(all_observations) > (MaxPosts - 1) * MaxResults

\* ========================================================================
\* A full sync followed by incremental syncs of a growing collection
\* ========================================================================
MaxGrowth == 4
MaxSyncs == 3
\* The child whose images are synced.
SyncedChild == "c1"

\* The remote publishes an image of the child: it is created later than
\* every image of the collection and is listed first.
Grow ==
    /\ spc = "idle"
    /\ serial < MaxGrowth
    /\ feed' = [feed EXCEPT ![SyncedChild] =
                    <<SyncItem(serial + 1, serial + 1)>> \o @]
    /\ serial' = serial + 1
    /\ UNCHANGED <<cache, obs_images, fault, spc, args, access_token, todo,
                   selected, last_sync, child_stop_at, child_images, di,
                   results, runs, phase, wlog>>
    /\ UNCHANGED <<dlVars, fetchVars, obsVars, toolVars>>

\* main with the cached credentials, neither --full nor --login, up to the
\* loop over the children.
IncrementalStart ==
    /\ spc = "idle"
    /\ runs < MaxSyncs
    /\ load_cached_credentials(cache) /= NoData
    /\ access_token' = load_cached_credentials(cache).access_token
    /\ last_sync' = GetLastSync(load_cached_credentials(cache))
    /\ args' = [creds |-> "cached", child_id |-> SyncedChild, login |-> FALSE,
                full |-> FALSE, dry_run |-> FALSE, observations |-> FALSE]
    /\ todo' = <<SyncedChild>>
    /\ selected' = 1
    /\ spc' = "fetch"
    /\ runs' = runs + 1
    /\ UNCHANGED <<cache, feed, obs_images, fault, serial, child_stop_at,
                   child_images, di, results, phase, wlog>>
    /\ UNCHANGED <<dlVars, fetchVars, obsVars, toolVars>>

\* The body of the loop for the child and the end of main:
\*   images = downloader.fetch_all_images(stop_at=stop_at)
\*   downloader.download_all(images)
\*   update_last_sync(output_dir, child_id, images[0].get("createdAt"))
\* The downloads have no part in what is fetched or recorded.
IncrementalSync ==
    /\ spc = "fetch"
    /\ LET imgs == FetchFrom(feed[Child], None, StopAtFor(Child), batch_size)
       IN  /\ synced' = Append(synced, [images |-> imgs,
                                        size |-> Len(feed[Child])])
           /\ cache' = IF imgs /= <<>> /\ Truthy(NewestTimestamp(imgs))
                       THEN update_last_sync(cache, Child, NewestTimestamp(imgs))
                       ELSE cache
    /\ ProcessGone
    /\ UNCHANGED <<feed, obs_images, fault, serial, runs>>
    /\ UNCHANGED <<dlVars, obsVars, toolVars>>
    /\ UNCHANGED <<remote, batch_size, stop_at, all_images, older_than,
                   reached_existing, fpc, requests, pages>>

\* The cache as a login left it, no image published yet.
InitIncremental ==
    /\ cache = MkCache("token-1", <<SyncedChild>>, 0, NoSync)
    /\ feed = [c \in Children |-> <<>>]
    /\ obs_images = FALSE
    /\ fault = "RequestException"
    /\ serial = 0
    /\ spc = "idle"
    /\ args = NoArgs
    /\ access_token = ""
    /\ todo = <<>>
    /\ selected = 0
    /\ last_sync = NoSync
    /\ child_stop_at = None
    /\ child_images = <<>>
    /\ di = 0
    /\ results = <<>>
    /\ runs = 0
    /\ phase = NoPhase
    /\ wlog = NoWrite
    /\ remote = <<>>
    /\ batch_size \in 1..MaxBatch
    /\ stop_at = None
    /\ all_images = <<>>
    /\ older_than = None
    /\ reached_existing = FALSE
    /\ fpc = "idle"
    /\ requests = <<>>
    /\ pages = <<>>
    /\ synced = <<>>
    /\ DownloadIdle
    /\ ObsIdle
    /\ ToolIdle

NextIncremental == Grow \/ IncrementalStart \/ IncrementalSync

SpecIncremental == InitIncremental /\ [][NextIncremental]_vars

\* Everything the runs so far fetched, in order.
AllSynced == Flatten([k \in 1..Len(synced) |-> synced[k].images])
\* The images the collection held when the last run fetched.
PresentAtLastSync ==
    LET coll == feed[SyncedChild]
    IN  SubSeq(coll, Len(coll) - Last(synced).size + 1, Len(coll))

\* C35: over a collection that only grows by images newer than all it holds,
\* after a full sync and any number of incremental syncs every image the
\* collection held at the last sync is in the fetch result of exactly one
\* run: none is missing and none was fetched twice.
C35_EveryItemInOneRun ==
    synced /= <<>> =>
        /\ NoDuplicates(AllSynced)
        /\ Range(AllSynced) = Range(PresentAtLastSync)

\* Three runs, each with something new to fetch, the first over more than
\* one page.
C35_Witness ==
    /\ Len(synced) = MaxSyncs
    /\ \A k \in 1..MaxSyncs : synced[k].images /= <<>>
    /\ Len(synced[1].images) > batch_size
    /\ Len(AllSynced) = MaxGrowth

\* ========================================================================
\* The watermark and the cache file
\* ========================================================================
\* The child is processed in a run given --child-id and --access-token that
\* found no cache file.
ManualWithoutCache ==
    InPhase /\ args.creds = "manual" /\ phase.cache0 = CacheAbsent

\* C37: update_last_sync creates no cache file: a file appears only in the
\* login of a run; stop_at is None whenever the cache file does not load
\* (it is absent, lacks an access_token or has an empty list of children),
\* whatever last_sync it stores; so a run with manual credentials and no
\* cache file is a full sync and leaves the cache file absent.
C37_WatermarkNeedsCache ==
    /\ [][(cache = CacheAbsent /\ cache' /= CacheAbsent) => args'.login]_vars
    /\ []((InPhase /\ load_cached_credentials(phase.cache0) = NoData) =>
            child_stop_at = None)
    /\ [](ManualWithoutCache => (cache = CacheAbsent /\ child_stop_at = None))

\* A run with manual credentials and no cache file downloaded an image with
\* a createdAt and called update_last_sync: there is still no cache file.
C37_Witness ==
    /\ ManualWithoutCache
    /\ phase.updated
    /\ cache = CacheAbsent

\* A run with manual credentials on a cache file that stores an entry for
\* the child and has an empty list of children: the fetch was a full one.
C37_WitnessIgnored ==
    /\ InPhase /\ phase.fetched
    /\ args.creds = "manual"
    /\ phase.cache0.file = "object"
    /\ Has(phase.cache0, "children") /\ phase.cache0.children = <<>>
    /\ Truthy(Stored(phase.cache0, phase.child))
    /\ child_stop_at = None

\* ========================================================================
\* The publish tool: publish.py
\* ========================================================================
\* ------------------------------------------------------------------------
\* main: the settings of the providers
\* ------------------------------------------------------------------------
\* The settings that have a command-line option, an environment variable
\* and a key of the configuration file.
SettingNames == {"bucket", "region", "account_id", "api_token"}

\* Python's  a or b  on str | None
Or(a, b) == IF a /= Unset THEN a ELSE b

\* PublishConfig: the defaults of its fields
ConfigDefault(k) == IF k = "region" THEN "us-east-1" ELSE Unset
\* PublishConfig.from_dict: cf.get("account_id", config.cloudflare_account_id)
ConfigValue(file, k) == IF file[k] = Unset THEN ConfigDefault(k) ELSE file[k]
\* os.environ.get(NAME, default) in the constructors of the providers
EnvValue(env, k) ==
    IF env[k] = Unset THEN (IF k = "region" THEN "us-east-1" ELSE Unset)
    ELSE env[k]

\* main:  bucket = args.bucket or config.s3_bucket  (and the like)
Merged(cli, file, k) == Or(cli[k], ConfigValue(file, k))
\* S3Provider.__init__ and CloudflareProvider.__init__:
\*   self.bucket = bucket or os.environ.get("S3_BUCKET", "")
Resolved(cli, env, file, k) == Or(Merged(cli, file, k), EnvValue(env, k))

\* The settings each provider is constructed from.
UsedSettings(name) ==
    IF name = "s3" THEN {"bucket", "region"}
    ELSE IF name = "cloudflare" THEN {"account_id", "api_token"}
    ELSE {}

\* One source of settings: every setting the provider uses given or not,
\* under a value that names its origin; the other settings left out.
SourcesOf(name, value) ==
    {f \in [SettingNames -> {Unset, value}] :
        \A k \in SettingNames \ UsedSettings(name) : f[k] = Unset}

\* Characters of project names, and the names: sequences of characters.
Hyphen == "-"
CfChar(c) == IF c = "_" \/ c = " " THEN Hyphen ELSE Lower(c)
\* deploy: project_name.lower().replace("_", "-").replace(" ", "-")
CfProjectName(name) == [i \in 1..Len(name) |-> CfChar(name[i])]

ProjectNames == {<<"a">>, <<"a", "b">>, <<"A", "_", "b">>}
\* The Pages projects of the account before the run.
ProjectSets == SUBSET {<<"a">>, <<"a", "-", "b">>}

\* What is installed: npx (with wrangler through it), wrangler alone, neither.
Installs == {"npx", "wrangler", "none"}

\* The runs of the tool: command line, environment, configuration file,
\* provider, and for Cloudflare the project, the account and the tools.
PublishInputs ==
    [cli : SourcesOf("s3", "from-cli"), env : SourcesOf("s3", "from-env"),
     file : SourcesOf("s3", "from-file"), provider : {"s3"},
     access_emails : {NoEmails}, project_name : {<<"a">>},
     projects : {{}}, installed : {"npx"}]
    \cup
    [cli : SourcesOf("cloudflare", "from-cli"),
     env : SourcesOf("cloudflare", "from-env"),
     file : SourcesOf("cloudflare", "from-file"), provider : {"cloudflare"},
     access_emails : {NoEmails, <<"a@example.org">>},
     project_name : ProjectNames, projects : ProjectSets, installed : Installs]

\* main, from parse_args to the construction of the provider.
PublishMain ==
    /\ cpc = "main"
    /\ provider' =
         IF settings.provider = "s3"
         THEN [NoProvider EXCEPT
                 !.name = "s3",
                 !.bucket = Resolved(settings.cli, settings.env, settings.file, "bucket"),
                 !.region = Resolved(settings.cli, settings.env, settings.file, "region")]
         ELSE [NoProvider EXCEPT
                 !.name = "cloudflare",
                 !.account_id = Resolved(settings.cli, settings.env, settings.file,
                                         "account_id"),
                 !.api_token = Resolved(settings.cli, settings.env, settings.file,
                                        "api_token"),
                 !.access_emails = settings.access_emails]
    /\ cpc' = IF settings.provider = "cloudflare" THEN "check" ELSE "constructed"
    /\ UNCHANGED <<settings, calls, deploy_result, page>>
    /\ UNCHANGED <<dlVars, fetchVars, obsVars, syncVars>>

\* C31 (as stated): every setting the provider uses has the command-line
\* value when given, otherwise the value of the environment variable when
\* set, otherwise the value of the configuration file.
Documented(cli, env, file, k) ==
    IF cli[k] /= Unset THEN cli[k]
    ELSE IF env[k] /= Unset THEN env[k]
    ELSE ConfigValue(file, k)

\* The provider as main constructed it (wrangler whoami may fill in the
\* account id later, during Access setup).
Constructed == provider.name /= "none" /\ provider.account_id /= "from-whoami"

C31_CliEnvFile ==
    Constructed =>
        \A k \in UsedSettings(provider.name) :
            provider[k] = Documented(settings.cli, settings.env, settings.file, k)

\* What the code does instead: command line, then file, then environment;
\* and the region never comes from the environment.
CliFileEnv ==
    Constructed =>
        /\ \A k \in UsedSettings(provider.name) :
              provider[k] =
                IF settings.cli[k] /= Unset THEN settings.cli[k]
                ELSE IF settings.file[k] /= Unset THEN settings.file[k]
                ELSE IF k = "region" THEN "us-east-1"
                ELSE settings.env[k]
        /\ provider.region /= "from-env"

\* ------------------------------------------------------------------------
\* CloudflareProvider.deploy
\* ------------------------------------------------------------------------
IsSubstring(s, t) ==
    \E i \in 0..(Len(t) - Len(s)) : SubSeq(t, i + 1, i + Len(s)) = s

Called(c) == \E i \in 1..Len(calls) : calls[i] = c

\* The projects of the account now: those before the run and the one a
\* successful  wrangler pages project create  added.
Projects ==
    settings.projects \cup
        (IF Called("create ok") THEN {CfProjectName(settings.project_name)} ELSE {})

\* The output of  wrangler pages project list : one row for each project.
ListStdout(ps) ==
    IF ps = {} THEN <<>>
    ELSE LET RECURSIVE Rows(_)
             Rows(rest) ==
                 IF rest = {} THEN <<>>
                 ELSE LET q == CHOOSE x \in rest : TRUE
                      IN q \o <<NewLine>> \o Rows(rest \ {q})
         IN Rows(ps)

\* _project_exists, the list command having succeeded:
\*   return project_name in result.stdout
ProjectListed(name, ps) == IsSubstring(name, ListStdout(ps))

Returns(success, message) ==
    /\ deploy_result' = [success |-> success, message |-> message]
    /\ cpc' = "returned"

\* The success at the end of the try block of deploy.
Deployed == Returns(TRUE, "Deployed to Cloudflare Pages")

\* Where deploy goes after _create_project returned False.
OnCreateFailure == "returned"

\* Where deploy goes after the deploy command: _setup_access only with
\* access_emails.
AfterDeploy(emails) == IF emails /= NoEmails THEN "access" ELSE "return"

ToolRest == UNCHANGED <<dlVars, fetchVars, obsVars, syncVars, page>>

\* _check_wrangler: npx --yes wrangler --version, then wrangler --version.
CheckWrangler ==
    /\ cpc = "check"
    /\ IF settings.installed = "none"
       THEN /\ calls' = Append(calls, "check failed")
            /\ Returns(FALSE, "Wrangler/npx not found")
       ELSE /\ calls' = Append(calls, "check ok")
            /\ cpc' = "exists"
            /\ UNCHANGED deploy_result
    /\ UNCHANGED <<settings, provider>>
    /\ ToolRest

\* _project_exists: FileNotFoundError (no npx) is not caught anywhere;
\* CalledProcessError counts as "does not exist".
ProjectExists ==
    /\ cpc = "exists"
    /\ IF settings.installed /= "npx"
       THEN /\ calls' = Append(calls, "list FileNotFoundError")
            /\ cpc' = "raised"
       ELSE \E ok \in BOOLEAN :
              /\ calls' = Append(calls, IF ok THEN "list ok" ELSE "list failed")
              /\ cpc' = IF ok /\ ProjectListed(CfProjectName(settings.project_name),
                                               settings.projects)
                        THEN "deploy" ELSE "create"
    /\ UNCHANGED <<settings, provider, deploy_result>>
    /\ ToolRest

\* _create_project, and deploy's return on its failure.
CreateProject ==
    /\ cpc = "create"
    /\ \E ok \in BOOLEAN :
         /\ IF ok
            THEN /\ calls' = Append(calls, "create ok")
                 /\ cpc' = "deploy"
                 /\ UNCHANGED deploy_result
            ELSE /\ calls' = Append(calls, "create failed")
                 /\ deploy_result' = [success |-> FALSE,
                                      message |-> "Failed to create project"]
                 /\ cpc' = OnCreateFailure
    /\ UNCHANGED <<settings, provider>>
    /\ ToolRest

\* wrangler pages deploy, inside the try block.
DeployCmd ==
    /\ cpc = "deploy"
    /\ \E ok \in BOOLEAN :
         /\ IF ~ok
            THEN /\ calls' = Append(calls, "deploy failed")
                 /\ Returns(FALSE, "Deployment failed")
            ELSE /\ calls' = Append(calls, "deploy ok")
                 /\ IF AfterDeploy(provider.access_emails) = "access"
                    THEN cpc' = "access" /\ UNCHANGED deploy_result
                    ELSE Deployed
    /\ UNCHANGED <<settings, provider>>
    /\ ToolRest

\* _setup_access up to the first API request: the token, _ensure_account_id.
AccessStart ==
    /\ cpc = "access"
    /\ IF provider.api_token = Unset
       THEN /\ calls' = Append(calls, "access: no token")
            /\ Deployed
            /\ UNCHANGED provider
       ELSE IF provider.account_id /= Unset
       THEN /\ calls' = Append(calls, "access: start")
            /\ cpc' = "apps"
            /\ UNCHANGED <<provider, deploy_result>>
       ELSE \E found \in BOOLEAN :
              IF found
              THEN /\ calls' = Append(calls, "access: whoami ok")
                   /\ provider' = [provider EXCEPT !.account_id = "from-whoami"]
                   /\ cpc' = "apps"
                   /\ UNCHANGED deploy_result
              ELSE /\ calls' = Append(calls, "access: whoami failed")
                   /\ Deployed
                   /\ UNCHANGED provider
    /\ UNCHANGED settings
    /\ ToolRest

\* The answers of _api_request: None (any error), an answer without
\* success, a successful answer (with or without the thing looked for),
\* and a successful answer whose entry lacks "id".
ApiAnswers == {"none", "unsuccessful", "found", "not found", "no id"}

\* GET access/apps and the search for the application.
AccessListApps ==
    /\ cpc = "apps"
    /\ \E a \in ApiAnswers :
         /\ calls' = Append(calls, "GET apps")
         /\ cpc' = IF a = "found" THEN "policies"
                   ELSE IF a = "no id" THEN "raised"
                   ELSE "create app"
    /\ UNCHANGED <<settings, provider, deploy_result>>
    /\ ToolRest

\* _update_access_policy: GET the policies, then PUT or POST, whose answer
\* is not looked at.
AccessUpdatePolicy ==
    /\ cpc = "policies"
    /\ \E a \in ApiAnswers :
         IF a = "no id"
         THEN /\ calls' = Append(calls, "GET policies")
              /\ cpc' = "raised"
              /\ UNCHANGED deploy_result
         ELSE /\ calls' = calls \o
                    (IF a \in {"none", "unsuccessful"} THEN <<"GET policies">>
                     ELSE IF a = "found" THEN <<"GET policies", "PUT policy">>
                     ELSE <<"GET policies", "POST policy">>)
              /\ Deployed
    /\ UNCHANGED <<settings, provider>>
    /\ ToolRest

\* POST access/apps
AccessCreateApp ==
    /\ cpc = "create app"
    /\ \E a \in ApiAnswers \ {"not found"} :
         /\ calls' = Append(calls, "POST app")
         /\ IF a = "found"
            THEN cpc' = "create policy" /\ UNCHANGED deploy_result
            ELSE IF a = "no id"
            THEN cpc' = "raised" /\ UNCHANGED deploy_result
            ELSE Deployed
    /\ UNCHANGED <<settings, provider>>
    /\ ToolRest

\* POST access/apps/{app_id}/policies: a warning on failure, nothing else.
AccessCreatePolicy ==
    /\ cpc = "create policy"
    /\ \E a \in {"none", "unsuccessful", "found"} :
         /\ calls' = Append(calls, IF a = "found" THEN "POST policy"
                                   ELSE "POST policy failed")
         /\ Deployed
    /\ UNCHANGED <<settings, provider>>
    /\ ToolRest

InitPublish ==
    /\ settings \in PublishInputs
    /\ provider = NoProvider
    /\ cpc = "main"
    /\ calls = <<>>
    /\ deploy_result = NoDeployResult
    /\ page = NoPage
    /\ DownloadIdle
    /\ FetchIdle
    /\ ObsIdle
    /\ SyncIdle

NextPublish ==
    \/ PublishMain
    \/ CheckWrangler
    \/ ProjectExists
    \/ CreateProject
    \/ DeployCmd
    \/ AccessStart
    \/ AccessListApps
    \/ AccessUpdatePolicy
    \/ AccessCreateApp
    \/ AccessCreatePolicy

SpecPublish == InitPublish /\ [][NextPublish]_vars

AccessAttempted == \E i \in 1..Len(calls) : calls[i] \in
    {"access: no token", "access: start", "access: whoami ok", "access: whoami failed"}

DeployRan == Called("deploy ok") \/ Called("deploy failed")

\* C38 (as stated): the deploy command runs only if the project exists or
\* was just created; a failed creation returns a failure without deploying;
\* Access setup is attempted only after the deploy command succeeded; and
\* once the deploy command succeeded, deploy never returns a failure.
C38_DeployStepsOrdered ==
    /\ DeployRan => CfProjectName(settings.project_name) \in Projects
    /\ Called("create failed") =>
          /\ ~DeployRan
          /\ cpc = "returned" /\ ~deploy_result.success
    /\ AccessAttempted => Called("deploy ok")
    /\ (Called("deploy ok") /\ cpc = "returned") => deploy_result.success

\* The same with "exists" read as the verdict of _project_exists: the name
\* occurs somewhere in the listing.
DeployStepsOrderedAsListed ==
    /\ DeployRan =>
          \/ Called("create ok")
          \/ ProjectListed(CfProjectName(settings.project_name), settings.projects)
    /\ Called("create failed") =>
          /\ ~DeployRan
          /\ cpc = "returned" /\ ~deploy_result.success
    /\ AccessAttempted => Called("deploy ok")
    /\ (Called("deploy ok") /\ cpc = "returned") => deploy_result.success

\* ========================================================================
\* The photo gallery page: HTMLFormatter.format_photo_gallery, FAMLY_CSS
\* ========================================================================
\* Lengths are in units of one ninth of the tallest viewport. The page is a
\* header, the month sections in document order, and a footer.
MaxSections == 3
MaxHeight == 4
HeaderHeight == 1
FooterHeight == 1
WindowHeights == {3, 6}
\* Time is in ticks of half a second: the delay of 1.5 s the tests wait for.
HideDelay == 3

Viewports == {"desktop", "mobile"}

Layouts ==
    UNION {[1..n -> 1..MaxHeight] : n \in 1..MaxSections}

SumTo(h, n) ==
    LET RECURSIVE S(_)
        S(k) == IF k = 0 THEN 0 ELSE h[k] + S(k - 1)
    IN S(n)

\* Document coordinates of section i
Top(h, i) == HeaderHeight + SumTo(h, i - 1)
DocHeight(h) == HeaderHeight + SumTo(h, Len(h)) + FooterHeight
MaxScrollY(h, innerHeight) == Max(0, DocHeight(h) - innerHeight)

\* section.getBoundingClientRect()
RectTop(pg, i) == Top(pg.sections, i) - pg.scrollY
RectBottom(pg, i) == RectTop(pg, i) + pg.sections[i]

\* updateActiveMonth: rect.top <= windowHeight / 3 && rect.bottom > 0
InTopPart_Half(pg, i) == 2 * RectTop(pg, i) <= pg.innerHeight /\ RectBottom(pg, i) > 0
InTopPart(pg, i) == 3 * RectTop(pg, i) <= pg.innerHeight /\ RectBottom(pg, i) > 0

\* updateActiveMonth: sections.forEach(... activeSection = section ...);
\* 0 stands for null.
ActiveSection_First(pg) ==
    LET RECURSIVE Each(_, _)
        Each(i, found) ==
            IF i > Len(pg.sections) THEN found
            ELSE Each(i + 1, IF found = 0 /\ InTopPart(pg, i) THEN i ELSE found)
    IN Each(1, 0)
ActiveSection(pg) ==
    LET RECURSIVE Each(_, _)
        Each(i, found) ==
            IF i > Len(pg.sections) THEN found
            ELSE Each(i + 1, IF InTopPart(pg, i) THEN i ELSE found)
    IN Each(1, 0)

\* updateActiveMonth: item.classList.remove('active'), then add on a match.
\* Item i is the one whose data-target is the id of section i.
ItemActive_NoRemove(was, matches) == was \/ matches
ItemActive(was, matches) == matches

updateActiveMonth(pg) ==
    LET activeSection == ActiveSection(pg)
    IN [pg EXCEPT !.active =
           [i \in DOMAIN pg.active |->
               ItemActive(pg.active[i], activeSection /= 0 /\ i = activeSection)]]

\* FAMLY_CSS: @media (max-width: 600px) { .timeline-nav { display: none; } }
Displayed(viewport) == viewport /= "mobile"

Pages ==
    {[pc |-> "loading", viewport |-> v, innerHeight |-> w, sections |-> h,
      scrollY |-> 0, active |-> [i \in 1..Len(h) |-> FALSE],
      nav |-> {}, pointer |-> "up", since_scroll |-> HideDelay, scrolled |-> FALSE]
        : v \in Viewports, w \in WindowHeights, h \in Layouts}

PageRest ==
    UNCHANGED <<dlVars, fetchVars, obsVars, syncVars,
                settings, provider, cpc, calls, deploy_result>>

\* The script of the page runs: the listeners are added, updateActiveMonth()
ScriptRun ==
    /\ page.pc = "loading"
    /\ page' = [updateActiveMonth(page) EXCEPT !.pc = "ready"]
    /\ PageRest

\* The window is scrolled to y: the scroll listener (updateActiveMonth)
ScrollTo(y) ==
    [updateActiveMonth([page EXCEPT !.scrollY = y])
        EXCEPT !.since_scroll = 0, !.scrolled = TRUE]

Scroll ==
    /\ page.pc = "ready"
    /\ \E y \in 0..MaxScrollY(page.sections, page.innerHeight) :
         /\ y /= page.scrollY
         /\ page' = ScrollTo(y)
    /\ PageRest

\* A click on a timeline item: target.scrollIntoView({block: 'start'});
\* the page scrolls as far as the document allows.
ItemClick ==
    /\ page.pc = "ready"
    /\ Displayed(page.viewport)
    /\ \E i \in DOMAIN page.active :
         LET y == Min(Top(page.sections, i),
                      MaxScrollY(page.sections, page.innerHeight))
         IN /\ y /= page.scrollY
            /\ page' = ScrollTo(y)
    /\ PageRest

\* The pointer goes down where the timeline is, and up again. The script
\* has no listener for either.
PointerDown ==
    /\ page.pc = "ready"
    /\ page.pointer = "up"
    /\ page' = [page EXCEPT !.pointer = "down"]
    /\ PageRest

PointerUp ==
    /\ page.pc = "ready"
    /\ page.pointer = "down"
    /\ page' = [page EXCEPT !.pointer = "up"]
    /\ PageRest

\* Half a second passes without a scroll. The script sets no timer.
Tick ==
    /\ page.pc = "ready"
    /\ page.since_scroll < HideDelay
    /\ page' = [page EXCEPT !.since_scroll = @ + 1]
    /\ PageRest

InitTimeline ==
    /\ page \in Pages
    /\ settings = NoSettings
    /\ provider = NoProvider
    /\ cpc = "idle"
    /\ calls = <<>>
    /\ deploy_result = NoDeployResult
    /\ DownloadIdle
    /\ FetchIdle
    /\ ObsIdle
    /\ SyncIdle

NextTimeline ==
    \/ ScriptRun
    \/ Scroll
    \/ ItemClick
    \/ PointerDown
    \/ PointerUp
    \/ Tick

SpecTimeline == InitTimeline /\ [][NextTimeline]_vars

SpecTimelineFair == SpecTimeline /\ WF_vars(Tick)

Ready == page.pc = "ready"
ActiveItems == {i \in DOMAIN page.active : page.active[i]}

\* The section the top edge of the viewport lies in.
AtViewportTop(i) == RectTop(page, i) <= 0 /\ RectBottom(page, i) > 0

Mobile == page.pc = "ready" /\ page.viewport = "mobile"

\* The timeline can be seen: the style sheet has no rule for a class of
\* .timeline-nav, only the display rule of the narrow viewport.
Shown == Displayed(page.viewport)

\* C33 (as stated): on a mobile viewport the timeline is hidden until the
\* first scroll, shown from a scroll until the hide delay has passed
\* without another, hidden once it has passed, and every scroll is
\* eventually followed by the hidden state.
C33_MobileShownWhileScrolling ==
    /\ [](Mobile /\ ~page.scrolled => ~Shown)
    /\ [](Mobile /\ page.scrolled /\ page.since_scroll < HideDelay => Shown)
    /\ [](Mobile /\ page.since_scroll >= HideDelay => ~Shown)
    /\ ((Mobile /\ page.scrolled) ~> (Mobile /\ ~Shown))

\* What holds instead: on a mobile viewport the timeline is never shown and
\* never gets a class.
MobileNeverShown == Mobile => ~Shown /\ page.nav = {}

\* C34 (as stated): on a mobile viewport the timeline has the class
\* expanded exactly while the pointer is down on it.
C34_ExpandedWhileDragging ==
    Mobile => (("expanded" \in page.nav) <=> page.pointer = "down")


====
